---- MODULE Spec2Model ----
(***************************************************************************)
(* A model of hashdist.core.run_job: the import resolver, the command tree *)
(* interpreter and the two child-process supervisors.                      *)
(*                                                                         *)
(* Text is modelled as a sequence of symbols.  A symbol is one character   *)
(* ("/", ":", "$", ...) or an atomic run of identifier characters ("PWD",  *)
(* "src", "virtual"); every string operation of the source is computed on  *)
(* these sequences.                                                        *)
(***************************************************************************)
EXTENDS Integers, Sequences, FiniteSets, TLC

(***************************************************************************)
(* Bounds of the model.                                                    *)
(***************************************************************************)
\* longest import list of a job spec
MaxImports == 2
\* imports plus command nodes of one run, the nodes drawn from LeafNodes
MaxSize == 3
\* command nodes of one run when they are drawn from CoreNodes
MaxCoreSize == 5
\* deepest nesting of `commands` scopes (the top-level list is depth 1)
MaxDepth == 3

\* nodes after the artifact node in a script of the "io" family
MaxIoSize == 3

\* nodes after the artifact node in a script of the "path" family
MaxPathSize == 3

\* nodes after the artifact node in a script of the "in" family
MaxInSize == 3

(***************************************************************************)
(* Text helpers.                                                           *)
(***************************************************************************)
Last(s) == s[Len(s)]

StartsWith(s, p) == Len(s) >= Len(p) /\ SubSeq(s, 1, Len(p)) = p

EndsWith(s, p) == Len(s) >= Len(p) /\ SubSeq(s, Len(s) - Len(p) + 1, Len(s)) = p

\* sep.join(list)
RECURSIVE Join(_, _)
Join(sep, list) ==
    IF list = <<>> THEN <<>>
    ELSE IF Len(list) = 1 THEN list[1]
    ELSE list[1] \o sep \o Join(sep, Tail(list))

\* s.split(c) for a one-symbol separator c
RECURSIVE SplitAcc(_, _, _)
SplitAcc(s, c, cur) ==
    IF s = <<>> THEN <<cur>>
    ELSE IF Head(s) = c THEN <<cur>> \o SplitAcc(Tail(s), c, <<>>)
    ELSE SplitAcc(Tail(s), c, Append(cur, Head(s)))

Split(s, c) == SplitAcc(s, c, <<>>)

\* x.replace(old, new): leftmost, non-overlapping
RECURSIVE Replace(_, _, _)
Replace(x, old, new) ==
    IF Len(x) < Len(old) THEN x
    ELSE IF StartsWith(x, old) THEN new \o Replace(SubSeq(x, Len(old) + 1, Len(x)), old, new)
    ELSE <<Head(x)>> \o Replace(Tail(x), old, new)

\* old in x
RECURSIVE Contains(_, _)
Contains(x, old) ==
    IF Len(x) < Len(old) THEN FALSE
    ELSE StartsWith(x, old) \/ Contains(Tail(x), old)

Whitespace == {" ", "\n"}

RECURSIVE LStrip(_)
LStrip(s) == IF s # <<>> /\ Head(s) \in Whitespace THEN LStrip(Tail(s)) ELSE s

RECURSIVE RStrip(_)
RStrip(s) ==
    IF s # <<>> /\ Last(s) \in Whitespace THEN RStrip(SubSeq(s, 1, Len(s) - 1)) ELSE s

\* str.strip()
Strip(s) == RStrip(LStrip(s))

(***************************************************************************)
(* dict helpers: a dict is a function whose domain is its key set.         *)
(***************************************************************************)
EmptyDict == <<>>

DictSet(d, k, v) == [x \in DOMAIN d \cup {k} |-> IF x = k THEN v ELSE d[x]]

\* d.update(e)
DictUpdate(d, e) == [x \in DOMAIN d \cup DOMAIN e |-> IF x \in DOMAIN e THEN e[x] ELSE d[x]]

(***************************************************************************)
(* os.path (posixpath).                                                    *)
(***************************************************************************)
PathSep == <<":">>

isabs(p) == StartsWith(p, <<"/">>)

pjoin(a, b) ==
    IF isabs(b) THEN b
    ELSE IF a = <<>> \/ EndsWith(a, <<"/">>) THEN a \o b
    ELSE a \o <<"/">> \o b

RECURSIVE NormComps(_, _, _)
NormComps(comps, initial_slashes, new_comps) ==
    IF comps = <<>> THEN new_comps
    ELSE LET comp == Head(comps)
             rest == Tail(comps)
         IN  IF comp = <<>> \/ comp = <<".">>
             THEN NormComps(rest, initial_slashes, new_comps)
             ELSE IF \/ comp # <<".", ".">>
                     \/ (initial_slashes = 0 /\ new_comps = <<>>)
                     \/ (new_comps # <<>> /\ Last(new_comps) = <<".", ".">>)
             THEN NormComps(rest, initial_slashes, Append(new_comps, comp))
             ELSE IF new_comps # <<>>
             THEN NormComps(rest, initial_slashes, SubSeq(new_comps, 1, Len(new_comps) - 1))
             ELSE NormComps(rest, initial_slashes, new_comps)

normpath(path) ==
    IF path = <<>> THEN <<".">>
    ELSE LET initial_slashes ==
                 IF ~StartsWith(path, <<"/">>) THEN 0
                 ELSE IF StartsWith(path, <<"/", "/">>) /\ ~StartsWith(path, <<"/", "/", "/">>)
                 THEN 2 ELSE 1
             joined == Join(<<"/">>, NormComps(Split(path, "/"), initial_slashes, <<>>))
             out == [i \in 1..initial_slashes |-> "/"] \o joined
         IN  IF out = <<>> THEN <<".">> ELSE out

\* os.getcwd() of the runner process
HostCwd == <<"/", "host">>

abspath(path) == normpath(IF isabs(path) THEN path ELSE pjoin(HostCwd, path))

(***************************************************************************)
(* Variable substitution (string.Template with the two escapes).           *)
(***************************************************************************)
Digits == {"0", "1", "2", "3", "4", "5", "6", "7", "8", "9"}

\* symbols that are not identifier characters
NonIdent == {"$", "\\", "{", "}", "/", ":", " ", "\n", ".", "=", ";", "-", "'"}

\* [_a-zA-Z]
IdStart(c) == c \notin NonIdent \cup Digits

\* [_a-zA-Z0-9]
IdCont(c) == c \notin NonIdent

\* length of the longest run of identifier characters that starts s
RECURSIVE IdentLen(_)
IdentLen(s) == IF s # <<>> /\ IdCont(Head(s)) THEN 1 + IdentLen(Tail(s)) ELSE 0

Ok(v) == [ok |-> TRUE, val |-> v, err |-> "none"]

Err(e) == [ok |-> FALSE, val |-> <<>>, err |-> e]

Prepend(p, res) == IF res.ok THEN [res EXCEPT !.val = p \o @] ELSE res

\* Template(x).substitute(env): $$, $name, ${name}; anything else after $ is invalid
RECURSIVE TemplateSubstitute(_, _)
TemplateSubstitute(x, env) ==
    IF x = <<>> THEN Ok(<<>>)
    ELSE IF Head(x) # "$" THEN Prepend(<<Head(x)>>, TemplateSubstitute(Tail(x), env))
    ELSE LET r == Tail(x)
         IN  IF r # <<>> /\ Head(r) = "$"
             THEN Prepend(<<"$">>, TemplateSubstitute(Tail(r), env))
             ELSE IF r # <<>> /\ IdStart(Head(r))
             THEN LET n == IdentLen(r)
                      name == SubSeq(r, 1, n)
                  IN  IF name \in DOMAIN env
                      THEN Prepend(env[name], TemplateSubstitute(SubSeq(r, n + 1, Len(r)), env))
                      ELSE Err("KeyError")
             ELSE IF /\ Len(r) >= 3
                     /\ Head(r) = "{"
                     /\ IdStart(r[2])
                     /\ Len(r) >= IdentLen(Tail(r)) + 2
                     /\ r[IdentLen(Tail(r)) + 2] = "}"
             THEN LET n == IdentLen(Tail(r))
                      name == SubSeq(r, 2, n + 1)
                  IN  IF name \in DOMAIN env
                      THEN Prepend(env[name], TemplateSubstitute(SubSeq(r, n + 3, Len(r)), env))
                      ELSE Err("KeyError")
             ELSE Err("ValueError")

\* the module-level substitute(x, env)
substitute(x, env) ==
    IF Contains(x, <<"$", "$">>) THEN Err("KeyError")
    ELSE TemplateSubstitute(
             Replace(Replace(x, <<"\\", "\\", "\\", "\\">>, <<"\\", "\\">>),
                     <<"\\", "$">>, <<"$", "$">>),
             env)

(***************************************************************************)
(* The caller's arguments that the model fixes.                            *)
(***************************************************************************)
\* Python's None and a present value
None == <<>>

Some(v) == <<v>>

\* build_store.resolve: the artifacts that are built, with their directories
BuildStore ==
    [id \in {<<"a">>, <<"c">>} |->
        IF id = <<"a">> THEN <<"/", "s", "/", "a">> ELSE <<"/", "s", "/", "c">>]

resolve(dep_id) == IF dep_id \in DOMAIN BuildStore THEN Some(BuildStore[dep_id]) ELSE None

\* virtuals: virtual id -> artifact id
virtuals == [v \in {<<"virtual", ":", "u">>} |-> <<"c">>]

artifact_dir == <<"/", "art">>

cwd == <<"work">>

\* the import entries a job spec is drawn from: 'ref' absent, a name, or ''
ImportIds == {<<"a">>, <<"b">>, <<"virtual", ":", "u">>, <<"virtual", ":", "m">>}

ImportPalette ==
    {[id |-> i] : i \in ImportIds}
        \cup {[id |-> i, ref |-> Some(r)] : i \in ImportIds, r \in {<<"R">>, <<>>}}

ImportLists == UNION {[1..n -> ImportPalette] : n \in 0..MaxImports}

(***************************************************************************)
(* The script: command nodes are dicts.  The nodes a run meets are drawn   *)
(* from this palette as the interpreter reaches them.                      *)
(***************************************************************************)
type_keys ==
    <<"commands", "cmd", "hit", "set", "prepend_path", "append_path",
      "prepend_flag", "append_flag", "chdir">>

\* the synthetic first command handle_imports emits
ArtifactNode == [set |-> <<"ARTIFACT">>, value |-> artifact_dir]

N_set1 == [set |-> <<"X">>, value |-> <<"1">>]

N_set2 == [set |-> <<"X">>, value |-> <<"2">>]

N_prepend_path == [prepend_path |-> <<"X">>, value |-> <<"1">>]

N_append_path == [append_path |-> <<"X">>, nohash_value |-> <<"2">>]

N_prepend_flag == [prepend_flag |-> <<"X">>, value |-> <<"1">>]

N_append_flag == [append_flag |-> <<"X">>, value |-> <<"$", "{", "X", "}">>]

N_chdir == [chdir |-> <<"src">>]

N_set_pwd == [set |-> <<"PWD">>, value |-> <<"rel">>]

N_capture == [cmd |-> <<<<"printenv">>, <<"X">>>>, to_var |-> <<"CAPTURED">>]

N_print == [cmd |-> <<<<"printenv">>, <<"X">>>>]

N_false == [cmd |-> <<<<"false">>>>]

N_nosuch == [cmd |-> <<<<"/", "no", "/", "such">>>>]

N_logpipe == [hit |-> <<<<"logpipe">>, <<"H">>, <<"INFO">>>>]

N_undef == [set |-> <<"Y">>, value |-> <<"$", "UNDEF">>]

N_two_kinds == [set |-> <<"X">>, value |-> <<"1">>, chdir |-> <<"src">>]

N_no_kind == [value |-> <<"1">>]

N_empty == EmptyDict

LeafNodes ==
    {N_set1, N_set2, N_prepend_path, N_append_path, N_prepend_flag, N_append_flag,
     N_chdir, N_set_pwd, N_capture, N_print, N_false, N_nosuch, N_logpipe, N_undef,
     N_two_kinds, N_no_kind, N_empty}

\* the nodes of the longer scripts
CoreNodes == {N_set1, N_set2, N_capture, N_print}

N_logpipe_var == [hit |-> <<<<"logpipe">>, <<"H">>, <<"INFO">>>>, to_var |-> <<"P">>]

N_logpipe_debug == [hit |-> <<<<"logpipe">>, <<"H">>, <<"DEBUG">>>>, to_var |-> <<"P">>]

\* a redirect to the path held by $P
N_append_pipe == [cmd |-> <<<<"printenv">>, <<"PWD">>>>, append_to_file |-> <<"$", "P">>]

\* a redirect to a relative path
N_append_out == [cmd |-> <<<<"printenv">>, <<"PWD">>>>, append_to_file |-> <<"out">>]

\* a redirect into /given2, next to the caller's /given
N_append_sibling ==
    [cmd |-> <<<<"printenv">>, <<"PWD">>>>, append_to_file |-> <<"/", "given", "2", "/", "out">>]

N_both ==
    [cmd |-> <<<<"printenv">>, <<"PWD">>>>, to_var |-> <<"CAPTURED">>,
     append_to_file |-> <<"out">>]

\* the nodes of the scripts that redirect stdout
IoNodes ==
    {N_logpipe_var, N_logpipe_debug, N_append_pipe, N_append_out, N_append_sibling, N_both}

N_path == [prepend_path |-> <<"PATH">>, value |-> <<"/", "bin">>]

N_print_path == [cmd |-> <<<<"printenv">>, <<"PATH">>>>]

\* the nodes of the scripts that deal with PATH
PathNodes == {N_path, N_print_path}

\* the override_env arguments of those runs
Overrides == {EmptyDict, [k \in {<<"PATH">>} |-> <<"/", "usr">>]}

\* a command that reads two inputs
N_input ==
    [cmd |-> <<<<"printenv">>, <<"in", "0">>>>,
     inputs |-> <<[string |-> <<"hi">>], [json |-> <<"{", "}">>]>>]

N_print_in0 == [cmd |-> <<<<"printenv">>, <<"in", "0">>>>]

\* an input entry of two kinds
N_bad_input ==
    [cmd |-> <<<<"printenv">>, <<"PWD">>>>,
     inputs |-> <<[string |-> <<"hi">>], [string |-> <<"hi">>, text |-> <<"hi">>]>>]

N_capture_pwd == [cmd |-> <<<<"printenv">>, <<"PWD">>>>, to_var |-> <<"CAPTURED">>]

\* the nodes of the scripts that deal with inputs and captures
InNodes == {N_set1, N_chdir, N_input, N_print_in0, N_bad_input, N_capture_pwd}

\* a `commands` node; its sub-list is drawn node by node as the interpreter reaches it
N_commands == [commands |-> "enter"]

N_commands_var == [commands |-> "enter", to_var |-> <<"V">>]

\* directories that exist on the host
ExistingDirs ==
    {<<"/">>, <<"/", "host">>, <<"/", "host", "/", "work">>,
     <<"/", "host", "/", "work", "/", "src">>, <<"/", "given", "2">>}

\* the run's temporary directory: the one mkdtemp makes, or the caller's
MadeTempDir == <<"/", "tmp", "/", "hashdist-run-job-">>

GivenTempDir == <<"/", "given">>

VARIABLES
    job_spec,            \* the job spec: [import, has_commands]
    family,              \* the palette the script's nodes are drawn from: "any", "core",
                         \* "io", "path" or "in"
    override_env,        \* run_job's override_env argument
    pc,                  \* where run_job is
    error,               \* the exception in flight or escaped: [kind, at]
    imp_i,               \* imports handled so far by handle_imports
    HDIST_IMPORT,        \* handle_imports: list of ids
    HDIST_IMPORT_PATHS,  \* handle_imports: list of directories
    scopes,              \* run_command_list frames, outermost first: [env, i, owner]
    last_env,            \* executor.last_env (None or Some(env))
    log_fifo_filenames,  \* executor.log_fifo_filenames: (header, level) -> path
    rm_temp_dir,         \* executor.rm_temp_dir
    temp_dir,            \* executor.temp_dir
    temp_dir_arg,        \* run_job's temp_dir argument: None or a directory
    disk,                \* the temporary directories on disk: path -> files in it
    platform,            \* "unread" until logged_check_call reads it; "full" or "simple"
    child,               \* the last child process: [status, env, unread]
    nspawned,            \* child processes spawned so far
    nodes_run,           \* command nodes run_node was called on
    result,              \* run_job's return: [returned, value]
    s2,                  \* how much of scenario S2 the run has matched so far
    files                \* the files opened for appending: path -> what was appended

\* The state of one supervised call (logged_check_call after Popen).
VARIABLES
    sv_pc,               \* where the supervisor is; "none" outside a supervised call
    stdout_to,           \* the capture sink: None, or Some(the bytes written to it)
    proc,                \* the child: [alive, nops, wfifos, retcode]
    pipe,                \* kernel: the unread bytes of each pipe and FIFO
    armed,               \* kernel: the FIFO read descriptors that report POLLHUP
    written,             \* every byte the child wrote, per stream
    consumed,            \* every byte the supervisor read, per stream
    buffers,             \* buffers: fd -> the line fragment carried over
    registered,          \* the fds registered with the poller
    fd_to_logpipe,       \* fd_to_logpipe: open FIFO read descriptor -> FIFO path
    loggers,             \* loggers: fd -> [name, level] of the logger its lines go to
    events,              \* what poller.poll returned and is still to be handled
    log,                 \* the records handed to the logger, in order (of run_job's own
                         \* steps, the ERROR records only)
    retcode              \* what the supervisor returned (None before)

\* the supervisor's own state
sup_state ==
    <<sv_pc, stdout_to, proc, pipe, armed, written, consumed, buffers, registered,
      fd_to_logpipe, loggers, events, retcode>>

sup_vars == <<sup_state, log>>

\* One call of a module-level function, for the claims about pure functions.
VARIABLES
    fn_pc,               \* "none", or how far the calls on fn_arg have got
    fn_arg,              \* the argument: [f, v] for the virtuals codec, [f, x] for substitute
    fn_res               \* what the last call returned or raised

\* One call of run_hit, step by step, for the claim about its frame.
VARIABLES
    hit_pc,              \* "none", or where run_hit is
    hit_frame,           \* the arguments and locals of the call
    logger_level,        \* logger.level
    sys_stdout           \* sys.stdout: "console", or "sink" for the stdout_to object

hit_vars == <<hit_pc, hit_frame, logger_level, sys_stdout>>

\* no call of run_hit is modelled step by step
HitIdle ==
    /\ hit_pc = "none"
    /\ hit_frame = <<>>
    /\ logger_level = <<>>
    /\ sys_stdout = "console"

\* Profiles (spec/profile.py): the objects built so far and the last call made.
VARIABLES
    prof_pc,             \* "none", "build", "raised" or "returned"
    profiles,            \* the Profile objects constructed, by identity
    prof_call            \* the last call: Profile(...) or get_packages()

prof_vars == <<prof_pc, profiles, prof_call>>

\* no profile is modelled
ProfIdle ==
    /\ prof_pc = "none"
    /\ profiles = <<>>
    /\ prof_call = <<>>

fn_vars == <<fn_pc, fn_arg, fn_res, hit_vars, prof_vars>>

\* no function call is modelled on its own
FnIdle ==
    /\ fn_pc = "none"
    /\ fn_arg = <<>>
    /\ fn_res = <<>>
    /\ HitIdle
    /\ ProfIdle

NoProc == [alive |-> FALSE, nops |-> 0, wfifos |-> {}, retcode |-> 0]

\* no supervised call is modelled step by step
SupIdle ==
    /\ sv_pc = "none"
    /\ stdout_to = <<>>
    /\ proc = NoProc
    /\ pipe = <<>>
    /\ armed = {}
    /\ written = <<>>
    /\ consumed = <<>>
    /\ buffers = <<>>
    /\ registered = {}
    /\ fd_to_logpipe = <<>>
    /\ loggers = <<>>
    /\ events = <<>>
    /\ log = <<>>
    /\ retcode = <<>>

vars ==
    <<job_spec, family, override_env, pc, error, imp_i, HDIST_IMPORT, HDIST_IMPORT_PATHS, scopes, last_env,
      log_fifo_filenames, rm_temp_dir, temp_dir, temp_dir_arg, disk, platform, child,
      nspawned, nodes_run, result, s2, files, sv_pc, stdout_to, proc, pipe, armed, written,
      consumed, buffers, registered, fd_to_logpipe, loggers, events, log, retcode, fn_pc, fn_arg,
      fn_res, hit_pc, hit_frame, logger_level, sys_stdout, prof_pc, profiles, prof_call>>

NoError == [kind |-> "none", at |-> 0]

NoChild == [status |-> "none", env |-> EmptyDict, unread |-> <<>>]

\* what the caller's directory may hold on entry
GivenTempDirContents == {{}, {<<"junk">>}}

Init ==
    /\ \/ family = "any" /\ job_spec \in [import : ImportLists, has_commands : BOOLEAN]
       \/ family \in {"core", "io", "path", "in"}
          /\ job_spec = [import |-> <<>>, has_commands |-> TRUE]
    /\ override_env \in IF family = "path" THEN Overrides ELSE {EmptyDict}
    /\ pc = "canonicalize"
    /\ error = NoError
    /\ imp_i = 0
    /\ HDIST_IMPORT = <<>>
    /\ HDIST_IMPORT_PATHS = <<>>
    /\ scopes = <<[env |-> EmptyDict, i |-> 0, owner |-> EmptyDict]>>
    /\ last_env = None
    /\ log_fifo_filenames = EmptyDict
    /\ rm_temp_dir = FALSE
    /\ temp_dir = <<>>
    /\ \/ temp_dir_arg = None /\ disk = EmptyDict
       \/ /\ temp_dir_arg = Some(GivenTempDir)
          /\ disk \in [{GivenTempDir} -> GivenTempDirContents]
    /\ platform = "unread"
    /\ child = NoChild
    /\ nspawned = 0
    /\ nodes_run = 0
    /\ result = [returned |-> FALSE, value |-> None]
    /\ s2 = 0
    /\ files = EmptyDict
    /\ SupIdle
    /\ FnIdle

(***************************************************************************)
(* handle_imports.                                                         *)
(***************************************************************************)
exec_vars ==
    <<scopes, last_env, log_fifo_filenames, rm_temp_dir, temp_dir, temp_dir_arg, disk,
      platform, child, nspawned, nodes_run, result, s2>>

import_vars == <<imp_i, HDIST_IMPORT, HDIST_IMPORT_PATHS>>

\* canonicalize_import: 'ref' defaults to None, '' is refused
canonicalize_import(item) ==
    IF "ref" \in DOMAIN item THEN item ELSE [id |-> item.id, ref |-> None]

EmptyRefs(imports) == {k \in 1..Len(imports) : canonicalize_import(imports[k]).ref = Some(<<>>)}

canonicalize_job_spec ==
    /\ pc = "canonicalize"
    /\ IF EmptyRefs(job_spec.import) # {}
       THEN /\ pc' = "failed"
            /\ error' = [kind |-> "EmptyRef",
                         at |-> CHOOSE k \in EmptyRefs(job_spec.import) :
                                    \A j \in EmptyRefs(job_spec.import) : k <= j]
            /\ UNCHANGED <<job_spec, family, override_env>>
       ELSE /\ pc' = "imports"
            /\ job_spec' = [job_spec EXCEPT
                                !.import = [k \in 1..Len(job_spec.import) |->
                                               canonicalize_import(job_spec.import[k])]]
            /\ UNCHANGED error
    /\ UNCHANGED <<family, override_env, import_vars, exec_vars>>
    /\ UNCHANGED <<files, sup_vars, fn_vars>>

\* the id an import stands for: virtuals[dep_id] for a virtual one
VirtualPrefix == <<"virtual", ":">>

\* an import check that reports every failure as an unbuilt dependency
ImportFailure_onekind(import_) ==
    IF StartsWith(import_.id, VirtualPrefix) /\ import_.id \notin DOMAIN virtuals
    THEN "UnbuiltDependency"
    ELSE LET dep_id == IF StartsWith(import_.id, VirtualPrefix)
                       THEN virtuals[import_.id] ELSE import_.id
         IN  IF resolve(dep_id) = None THEN "UnbuiltDependency" ELSE "none"

ImportFailure(import_) ==
    IF StartsWith(import_.id, VirtualPrefix) /\ import_.id \notin DOMAIN virtuals
    THEN "MissingVirtual"
    ELSE LET dep_id == IF StartsWith(import_.id, VirtualPrefix)
                       THEN virtuals[import_.id] ELSE import_.id
         IN  IF resolve(dep_id) = None THEN "UnbuiltDependency" ELSE "none"

ResolvedId(import_) ==
    IF StartsWith(import_.id, VirtualPrefix) THEN virtuals[import_.id] ELSE import_.id

ResolvedDir(import_) == resolve(ResolvedId(import_))[1]

\* bindings with the directory and the id exchanged
ImportBindings_swapped(env, import_) ==
    IF import_.ref # None
    THEN DictSet(DictSet(env, import_.ref[1] \o <<"_DIR">>, ResolvedId(import_)),
                 import_.ref[1] \o <<"_ID">>, ResolvedDir(import_))
    ELSE env

\* the bindings one import adds to env
ImportBindings(env, import_) ==
    IF import_.ref # None
    THEN DictSet(DictSet(env, import_.ref[1] \o <<"_DIR">>, ResolvedDir(import_)),
                 import_.ref[1] \o <<"_ID">>, ResolvedId(import_))
    ELSE env

\* one iteration of the loop over imports
handle_import ==
    /\ pc = "imports"
    /\ imp_i < Len(job_spec.import)
    /\ LET import_ == job_spec.import[imp_i + 1]
       IN  IF ImportFailure(import_) # "none"
           THEN /\ pc' = "failed"
                /\ error' = [kind |-> ImportFailure(import_), at |-> imp_i + 1]
                /\ UNCHANGED <<import_vars, exec_vars>>
           ELSE /\ imp_i' = imp_i + 1
                /\ HDIST_IMPORT' = Append(HDIST_IMPORT, ResolvedId(import_))
                /\ HDIST_IMPORT_PATHS' = Append(HDIST_IMPORT_PATHS, ResolvedDir(import_))
                /\ scopes' = [scopes EXCEPT ![1].env = ImportBindings(@, import_)]
                /\ UNCHANGED <<pc, error, last_env, log_fifo_filenames, rm_temp_dir,
                               temp_dir, temp_dir_arg, disk, platform, child, nspawned,
                               nodes_run, result, s2>>
    /\ UNCHANGED <<job_spec, family, override_env>>
    /\ UNCHANGED <<files, sup_vars, fn_vars>>

\* lines 270-274: the loop is over; assemble the script and finish env
handle_imports_return ==
    /\ pc = "imports"
    /\ imp_i = Len(job_spec.import)
    /\ IF ~job_spec.has_commands
       THEN \* job_spec['commands'] raises KeyError
            /\ pc' = "failed"
            /\ error' = [kind |-> "KeyError", at |-> 0]
            /\ UNCHANGED scopes
       ELSE /\ pc' = "prologue"
            /\ scopes' = [scopes EXCEPT ![1].env =
                             DictSet(DictSet(@, <<"HDIST_IMPORT">>, Join(<<" ">>, HDIST_IMPORT)),
                                     <<"HDIST_IMPORT_PATHS">>,
                                     Join(PathSep, HDIST_IMPORT_PATHS))]
            /\ UNCHANGED error
    /\ UNCHANGED <<job_spec, family, override_env, import_vars, last_env, log_fifo_filenames, rm_temp_dir,
                   temp_dir, temp_dir_arg, disk, platform, child, nspawned, nodes_run,
                   result, s2>>
    /\ UNCHANGED <<files, sup_vars, fn_vars>>

(***************************************************************************)
(* run_job.                                                                *)
(***************************************************************************)
\* the order of str on the symbols the model uses (ASCII order of their text)
Alphabet ==
    <<"\n", " ", "$", "'", "-", ".", "/", "0", "1", "2", "3", ":", ";", "=",
      "ARTIFACT", "CAPTURED", "H", "HDIST_CONFIG", "HDIST_IMPORT", "HDIST_IMPORT_PATHS",
      "HDIST_VIRTUALS", "INFO", "PATH", "PWD", "R", "UNDEF", "X", "Y",
      "\\", "_DIR", "_ID", "a", "art", "b", "c", "false", "given", "hashdist-run-job-",
      "host", "junk", "logpipe", "logpipe-", "m", "no", "printenv", "rel", "s", "src",
      "such", "tmp", "u", "virtual", "work", "{", "}">>

Ord(c) == CHOOSE k \in 1..Len(Alphabet) : Alphabet[k] = c

\* a < b for str
RECURSIVE StrLess(_, _)
StrLess(a, b) ==
    IF b = <<>> THEN FALSE
    ELSE IF a = <<>> THEN TRUE
    ELSE IF Head(a) = Head(b) THEN StrLess(Tail(a), Tail(b))
    ELSE Ord(Head(a)) < Ord(Head(b))

\* sorted(d.items()) as a list of keys
RECURSIVE SortedKeys(_)
SortedKeys(keys) ==
    IF keys = {} THEN <<>>
    ELSE LET k == CHOOSE x \in keys : \A y \in keys \ {x} : StrLess(x, y)
         IN  <<k>> \o SortedKeys(keys \ {k})

pack_virtuals_envvar(v) ==
    Join(<<";">>, [k \in 1..Cardinality(DOMAIN v) |->
                      SortedKeys(DOMAIN v)[k] \o <<"=">> \o v[SortedKeys(DOMAIN v)[k]]])

\* json.dumps(config, separators=(',', ':')) of the empty config
ConfigJson == <<"{", "}">>

\* an env that PATH is not cleared in
InitialEnv_hostpath(env, override) ==
    DictSet(DictSet(DictSet(
        DictUpdate(env, override),
        <<"HDIST_VIRTUALS">>, pack_virtuals_envvar(virtuals)),
        <<"HDIST_CONFIG">>, ConfigJson),
        <<"PWD">>, abspath(cwd))

\* the env the script starts in: env['PATH'] = '', env.update(override_env), ...
InitialEnv(env, override) ==
    DictSet(DictSet(DictSet(
        DictUpdate(DictSet(env, <<"PATH">>, <<>>), override),
        <<"HDIST_VIRTUALS">>, pack_virtuals_envvar(virtuals)),
        <<"HDIST_CONFIG">>, ConfigJson),
        <<"PWD">>, abspath(cwd))

\* lines 329-338
run_job_env ==
    /\ pc = "prologue"
    /\ IF ~job_spec.has_commands
       THEN /\ pc' = "done"
            /\ result' = [returned |-> TRUE, value |-> Some(EmptyDict)]
            /\ UNCHANGED scopes
       ELSE /\ pc' = "executor"
            /\ scopes' = [scopes EXCEPT ![1].env = InitialEnv(@, override_env)]
            /\ UNCHANGED result
    /\ UNCHANGED <<job_spec, family, override_env, error, import_vars, last_env, log_fifo_filenames, rm_temp_dir,
                   temp_dir, temp_dir_arg, disk, platform, child, nspawned, nodes_run, s2>>
    /\ UNCHANGED <<files, sup_vars, fn_vars>>

\* CommandTreeExecution.__init__
executor_init ==
    /\ pc = "executor"
    /\ IF temp_dir_arg = None
       THEN /\ rm_temp_dir' = TRUE
            /\ temp_dir' = MadeTempDir
            /\ disk' = DictSet(disk, MadeTempDir, {})
            /\ pc' = "run"
            /\ UNCHANGED error
       ELSE IF disk[temp_dir_arg[1]] # {}
       THEN /\ pc' = "failed"
            /\ error' = [kind |-> "TempDirNotEmpty", at |-> 0]
            /\ UNCHANGED <<rm_temp_dir, temp_dir, disk>>
       ELSE /\ rm_temp_dir' = FALSE
            /\ temp_dir' = temp_dir_arg[1]
            /\ pc' = "run"
            /\ UNCHANGED <<error, disk>>
    /\ UNCHANGED <<job_spec, family, override_env, import_vars, scopes, last_env, log_fifo_filenames,
                   temp_dir_arg, platform, child, nspawned, nodes_run, result, s2>>
    /\ UNCHANGED <<files, sup_vars, fn_vars>>

\* a cleanup that leaves the directory behind
rmtree_keep(d, path) == d

\* shutil.rmtree(path)
rmtree(d, path) == [x \in DOMAIN d \ {path} |-> d[x]]

\* the finally clause: executor.close(), then return executor.last_env or re-raise
close ==
    /\ pc = "finally"
    /\ disk' = IF rm_temp_dir THEN rmtree(disk, temp_dir) ELSE disk
    /\ IF error = NoError
       THEN pc' = "done" /\ result' = [returned |-> TRUE, value |-> last_env]
       ELSE pc' = "failed" /\ UNCHANGED result
    /\ UNCHANGED <<job_spec, family, override_env, error, import_vars, scopes, last_env, log_fifo_filenames,
                   rm_temp_dir, temp_dir, temp_dir_arg, platform, child, nspawned,
                   nodes_run, s2>>
    /\ UNCHANGED <<files, sup_vars, fn_vars>>

(***************************************************************************)
(* CommandTreeExecution: the interpreter.                                  *)
(***************************************************************************)
Top == scopes[Len(scopes)]

Range(f) == {f[x] : x \in DOMAIN f}

\* a dispatch on the first kind key found
NodeKinds_first(node) ==
    LET found == {k \in DOMAIN type_keys : type_keys[k] \in DOMAIN node}
    IN  IF found = {} THEN {} ELSE {type_keys[CHOOSE k \in found : \A j \in found : k <= j]}

\* node_pos of the node the interpreter is at: run_command_list's pos = node_pos + (i,)
NodePos == [k \in 1..Len(scopes) |-> scopes[k].i]

\* the kind keys a node carries
NodeKinds(node) == Range(type_keys) \cap DOMAIN node

\* the nodes the script may hold at the place the interpreter is at
NodesHere ==
    IF Len(scopes) = 1 /\ Top.i = 0 THEN {ArtifactNode}
    ELSE IF family = "core" THEN CoreNodes
    ELSE IF family = "io" THEN IoNodes
    ELSE IF family = "path" THEN PathNodes
    ELSE IF family = "in" THEN InNodes
    ELSE LeafNodes

\* the `commands` nodes the script may hold
CommandsHere ==
    IF Len(scopes) = 1 /\ Top.i = 0 THEN {}
    ELSE IF family = "io" THEN {N_commands, N_commands_var}
    ELSE {N_commands}

\* room left for one more node of the script
MoreNodes ==
    IF family = "core" THEN nodes_run <= MaxCoreSize
    ELSE IF family = "io" THEN nodes_run <= MaxIoSize
    ELSE IF family = "path" THEN nodes_run <= MaxPathSize
    ELSE IF family = "in" THEN nodes_run <= MaxInSize
    ELSE nodes_run + Len(job_spec.import) <= MaxSize

\* scenario S2 as the events of its run
N_S2 == <<N_set1, N_commands, N_set2, N_capture, [commands |-> "leave"], N_print>>

S2Next(s, ev) ==
    IF ev = ArtifactNode /\ s = 0 /\ nodes_run = 0 THEN 0
    ELSE IF s \in 0..(Len(N_S2) - 1) /\ ev = N_S2[s + 1] THEN s + 1
    ELSE -1

\* CommandTreeExecution.substitute: a KeyError becomes a logged ValueError
SubstituteError(res) == IF res.err = "KeyError" THEN "UnknownVariable" ELSE "ValueError"

\* the node at the top frame is done and left the frame's env as new_env
NodeDone(node, new_env) ==
    /\ scopes' = [scopes EXCEPT ![Len(scopes)] = [env |-> new_env, i |-> @.i + 1, owner |-> @.owner]]
    /\ nodes_run' = nodes_run + 1
    /\ s2' = S2Next(s2, node)
    /\ UNCHANGED <<pc, error, log>>

\* an interpreter that notes the failure and goes on with the next sibling
NodeRaised_continue(node, kind) ==
    /\ scopes' = [scopes EXCEPT ![Len(scopes)] = [env |-> @.env, i |-> @.i + 1, owner |-> @.owner]]
    /\ error' = [kind |-> kind, at |-> 0]
    /\ nodes_run' = nodes_run + 1
    /\ s2' = S2Next(s2, node)
    /\ UNCHANGED pc

\* the node raised
NodeRaised(node, kind) ==
    /\ pc' = "finally"
    /\ error' = [kind |-> kind, at |-> 0]
    /\ nodes_run' = nodes_run + 1
    /\ s2' = S2Next(s2, node)
    /\ UNCHANGED scopes

\* the node raised and no logger call came before the raise
Raise(node, kind) == NodeRaised(node, kind) /\ UNCHANGED log

ErrorRecord(msg) == [name |-> <<>>, level |-> <<"ERROR">>, msg |-> msg]

\* self.logger.error(msg) for each msg of lines, then the raise
LogAndRaise(node, kind, lines) ==
    /\ NodeRaised(node, kind)
    /\ log' = log \o [k \in 1..Len(lines) |-> ErrorRecord(lines[k])]

\* a failure of self.substitute(x, env): a KeyError is logged and becomes a ValueError,
\* anything else goes through as it is
SubstituteRaised(node, kind) ==
    IF kind = "UnknownVariable"
    THEN LogAndRaise(node, kind, <<<<"No such environment variable">>>>)
    ELSE Raise(node, kind)

node_frame == <<job_spec, family, override_env, import_vars, temp_dir_arg, rm_temp_dir, temp_dir, result>>

\* run_node: several kind keys, or none on a non-empty node
run_node_invalid(node) ==
    /\ pc = "run" /\ MoreNodes
    /\ \/ Cardinality(NodeKinds(node)) > 1
       \/ NodeKinds(node) = {} /\ DOMAIN node # {}
    /\ LogAndRaise(node, "InvalidJobSpec",
                   <<IF NodeKinds(node) = {} THEN <<"Node must be empty or have one of the keys">>
                     ELSE <<"Several action types present">>>>)
    /\ UNCHANGED <<node_frame, last_env, log_fifo_filenames, disk, platform, child, nspawned>>
    /\ UNCHANGED <<files, sup_state, fn_vars>>

\* run_node on an empty node
run_node_empty(node) ==
    /\ pc = "run" /\ MoreNodes
    /\ DOMAIN node = {}
    /\ NodeDone(node, Top.env)
    /\ UNCHANGED <<node_frame, last_env, log_fifo_filenames, disk, platform, child, nspawned>>
    /\ UNCHANGED <<files, sup_state, fn_vars>>

\* a chdir that stores its operand as given
ChdirResult_raw(node, env) ==
    LET d == substitute(node.chdir, env)
    IN  IF d.ok THEN Ok(DictSet(env, <<"PWD">>, d.val)) ELSE d

ChdirResult(node, env) ==
    LET d == substitute(node.chdir, env)
    IN  IF d.ok THEN Ok(DictSet(env, <<"PWD">>, abspath(pjoin(env[<<"PWD">>], d.val))))
        ELSE d

handle_chdir(node) ==
    /\ pc = "run" /\ MoreNodes
    /\ NodeKinds(node) = {"chdir"}
    /\ LET r == ChdirResult(node, Top.env)
       IN  IF r.ok THEN NodeDone(node, r.val) ELSE SubstituteRaised(node, SubstituteError(r))
    /\ UNCHANGED <<node_frame, last_env, log_fifo_filenames, disk, platform, child, nspawned>>
    /\ UNCHANGED <<files, sup_state, fn_vars>>

\* an env-mod that joins onto an empty value
EnvModResult_joinempty(node, env, varname, action, sep) ==
    IF "nohash_value" \notin DOMAIN node /\ "value" \notin DOMAIN node THEN Err("MissingValue")
    ELSE LET raw == IF "nohash_value" \in DOMAIN node THEN node.nohash_value ELSE node.value
             value == substitute(raw, env)
         IN  IF ~value.ok THEN value
             ELSE IF action = "set" \/ varname \notin DOMAIN env
             THEN Ok(DictSet(env, varname, value.val))
             ELSE IF action = "prepend"
             THEN Ok(DictSet(env, varname, Join(sep, <<value.val, env[varname]>>)))
             ELSE Ok(DictSet(env, varname, Join(sep, <<env[varname], value.val>>)))

\* handle_env_mod: the env after the node, or the failure
EnvModResult(node, env, varname, action, sep) ==
    IF "nohash_value" \notin DOMAIN node /\ "value" \notin DOMAIN node THEN Err("MissingValue")
    ELSE LET raw == IF "nohash_value" \in DOMAIN node THEN node.nohash_value ELSE node.value
             value == substitute(raw, env)
         IN  IF ~value.ok THEN value
             ELSE IF action = "set" \/ varname \notin DOMAIN env \/ Len(env[varname]) = 0
             THEN Ok(DictSet(env, varname, value.val))
             ELSE IF action = "prepend"
             THEN Ok(DictSet(env, varname, Join(sep, <<value.val, env[varname]>>)))
             ELSE Ok(DictSet(env, varname, Join(sep, <<env[varname], value.val>>)))

handle_env_mod(node, varname, action, sep) ==
    /\ LET r == EnvModResult(node, Top.env, varname, action, sep)
       IN  IF r.ok THEN NodeDone(node, r.val)
           ELSE IF r.err = "MissingValue" THEN Raise(node, "KeyError")
           ELSE SubstituteRaised(node, SubstituteError(r))
    /\ UNCHANGED <<node_frame, last_env, log_fifo_filenames, disk, platform, child, nspawned>>

handle_set(node) ==
    /\ pc = "run" /\ MoreNodes
    /\ NodeKinds(node) = {"set"}
    /\ handle_env_mod(node, node.set, "set", <<>>)
    /\ UNCHANGED <<files, sup_state, fn_vars>>

handle_append_path(node) ==
    /\ pc = "run" /\ MoreNodes
    /\ NodeKinds(node) = {"append_path"}
    /\ handle_env_mod(node, node.append_path, "append", PathSep)
    /\ UNCHANGED <<files, sup_state, fn_vars>>

handle_prepend_path(node) ==
    /\ pc = "run" /\ MoreNodes
    /\ NodeKinds(node) = {"prepend_path"}
    /\ handle_env_mod(node, node.prepend_path, "prepend", PathSep)
    /\ UNCHANGED <<files, sup_state, fn_vars>>

handle_append_flag(node) ==
    /\ pc = "run" /\ MoreNodes
    /\ NodeKinds(node) = {"append_flag"}
    /\ handle_env_mod(node, node.append_flag, "append", <<" ">>)
    /\ UNCHANGED <<files, sup_state, fn_vars>>

handle_prepend_flag(node) ==
    /\ pc = "run" /\ MoreNodes
    /\ NodeKinds(node) = {"prepend_flag"}
    /\ handle_env_mod(node, node.prepend_flag, "prepend", <<" ">>)
    /\ UNCHANGED <<files, sup_state, fn_vars>>

\* a sub-list that starts without the enclosing list's X
SubEnv_noX(env) == [k \in DOMAIN env \ {<<"X">>} |-> env[k]]

\* sub_env = dict(env)
SubEnv(env) == env

\* a sub-list whose env is handed back to the enclosing scope
EnvAfterCommands_leak(env, sub_env) == sub_env

\* the env of the enclosing scope once the sub-list is over; sub_env is dropped
EnvAfterCommands(env, sub_env) == env

\* handle_commands: a `commands` node opens a scope for its sub-list
handle_commands(node) ==
    /\ pc = "run" /\ MoreNodes
    /\ NodeKinds(node) = {"commands"}
    /\ Len(scopes) < MaxDepth
    /\ scopes' = Append(scopes, [env |-> SubEnv(Top.env), i |-> 0, owner |-> node])
    /\ nodes_run' = nodes_run + 1
    /\ s2' = S2Next(s2, node)
    /\ UNCHANGED <<pc, error, node_frame, last_env, log_fifo_filenames, disk, platform,
                   child, nspawned>>
    /\ UNCHANGED <<files, sup_vars, fn_vars>>

\* run_command_list has run the last node of a sub-list: back in handle_commands' caller
run_command_list_end ==
    /\ pc = "run"
    /\ Len(scopes) > 1
    /\ scopes' = [k \in 1..(Len(scopes) - 1) |->
                     IF k = Len(scopes) - 1
                     THEN [env |-> EnvAfterCommands(scopes[k].env, Top.env),
                           i |-> scopes[k].i + 1, owner |-> scopes[k].owner]
                     ELSE scopes[k]]
    /\ s2' = S2Next(s2, [commands |-> "leave"])
    /\ UNCHANGED <<pc, error, node_frame, last_env, log_fifo_filenames, disk, platform,
                   child, nspawned, nodes_run>>
    /\ UNCHANGED <<files, sup_vars, fn_vars>>

\* run_command_list has run the last node of the script
run_job_end ==
    /\ pc = "run"
    /\ Len(scopes) = 1
    /\ Top.i > 0
    /\ pc' = "finally"
    /\ s2' = IF s2 = Len(N_S2) THEN s2 ELSE -1
    /\ UNCHANGED <<error, node_frame, scopes, last_env, log_fifo_filenames, disk, platform,
                   child, nspawned, nodes_run>>
    /\ UNCHANGED <<files, sup_vars, fn_vars>>

\* [self.substitute(x, node_env) for x in args]
RECURSIVE SubstituteAll(_, _)
SubstituteAll(args, env) ==
    IF args = <<>> THEN Ok(<<>>)
    ELSE LET first == substitute(Head(args), env)
         IN  IF ~first.ok THEN first
             ELSE LET rest == SubstituteAll(Tail(args), env)
                  IN  IF rest.ok THEN Ok(<<first.val>> \o rest.val) ELSE rest

(***************************************************************************)
(* The programs a cmd node can name, as Popen and the child behave.        *)
(***************************************************************************)
Programs == {<<"printenv">>, <<"false">>}

\* what the child writes to its stdout
ProgramOutput(args, env) ==
    IF args[1] = <<"printenv">> /\ Len(args) = 2 /\ args[2] \in DOMAIN env
    THEN env[args[2]] \o <<"\n">>
    ELSE <<>>

ProgramExit(args, env) ==
    IF args[1] = <<"printenv">> /\ Len(args) = 2 /\ args[2] \in DOMAIN env THEN 0 ELSE 1

\* Popen(args, cwd=env['PWD'], env=env, ...) raises ENOENT
PopenNotFound(args, env) ==
    \/ abspath(env[<<"PWD">>]) \notin ExistingDirs
    \/ args[1] \notin Programs

Prefixes(out) == {SubSeq(out, 1, k) : k \in 0..Len(out)}

\* what a supervisor has read of the child's stdout when it returns: the reads
\* stop when the child is seen to have exited, whatever is still in the pipe
Supervised(out) == Prefixes(out)

\* 'linux' in sys.platform and not _TEST_LOG_PROCESS_SIMPLE
Platforms == IF platform = "unread" THEN {"full", "simple"} ELSE {platform}

\* the checks of handle_command_nodes before the node's scope is made
CommandNodeInvalid(node) ==
    \/ Cardinality({k \in {"cmd", "hit", "commands", "set"} : k \in DOMAIN node}) # 1
    \/ Cardinality({k \in {"to_var", "stdout_to_file"} : k \in DOMAIN node}) > 1
    \/ /\ "commands" \in DOMAIN node
       /\ {"append_to_file", "to_var", "inputs"} \cap DOMAIN node # {}

\* a capture that keeps the trailing newline
EnvAfterCommand_nostrip(node, env, captured) ==
    IF "to_var" \in DOMAIN node THEN DictSet(env, node.to_var, captured) ELSE env

\* the env of the scope after a cmd/hit node whose stdout was `captured`
EnvAfterCommand(node, env, captured) ==
    IF "to_var" \in DOMAIN node THEN DictSet(env, node.to_var, Strip(captured)) ELSE env

\* a snapshot taken of the scope's env after the node
LastEnv_exported(node_env, env) == Some(env)

\* self.last_env = dict(node_env); env is the scope's env after the node
LastEnv(node_env, env) == Some(node_env)

DigitOf == <<"0", "1", "2", "3", "4", "5", "6", "7", "8", "9">>

\* str_(n) of a natural number
RECURSIVE str_(_)
str_(n) == IF n < 10 THEN <<DigitOf[n + 1]>> ELSE str_(n \div 10) \o <<DigitOf[(n % 10) + 1]>>

\* node.get('inputs', ())
NodeInputs(node) == IF "inputs" \in DOMAIN node THEN node.inputs ELSE <<>>

\* 'in%d' % i
InputName(i) == <<"in">> \o str_(i)

\* the file input i of the node at node_pos is dumped to
InputFilename(input, node_pos, i) ==
    pjoin(temp_dir,
          Join(<<"_">>, [k \in 1..Len(node_pos) |-> str_(node_pos[k])])
              \o <<"_">> \o InputName(i))
        \o (IF "json" \in DOMAIN input THEN <<".", "json">> ELSE <<>>)

\* dump_inputs(inputs, node_pos): the bindings it returns and the files it has written,
\* or the files written before the entry it raises ValueError for
dump_inputs(inputs, node_pos) ==
    LET bad == {k \in 1..Len(inputs) :
                   Cardinality({"text", "json", "string"} \cap DOMAIN inputs[k]) # 1}
        n == IF bad = {} THEN Len(inputs)
             ELSE (CHOOSE k \in bad : \A j \in bad : k <= j) - 1
        index(name) == CHOOSE k \in 1..n : InputName(k - 1) = name
    IN  [ok |-> bad = {},
         env |-> [name \in {InputName(k - 1) : k \in 1..n} |->
                     InputFilename(inputs[index(name)], node_pos, index(name) - 1)],
         dumped |-> {InputFilename(inputs[k], node_pos, k - 1) : k \in 1..n}]

\* os.path.dirname
dirname(p) ==
    LET slashes == {k \in 1..Len(p) : p[k] = "/"}
        i == IF slashes = {} THEN 0 ELSE CHOOSE k \in slashes : \A j \in slashes : j <= k
        head == SubSeq(p, 1, i)
        names == {k \in 1..Len(head) : head[k] # "/"}
    IN  IF names = {} THEN head
        ELSE SubSeq(head, 1, CHOOSE k \in names : \A j \in names : j <= k)

\* os.path.realpath on a host without symbolic links
realpath(p) == abspath(p)

\* where handle_command_nodes sends the stdout of a cmd/hit node: a StringIO ("var"),
\* a file opened for appending ("file"), nowhere ("none"); or it raises
StdoutTo(node, node_env, env) ==
    IF "to_var" \in DOMAIN node THEN [kind |-> "var", path |-> <<>>, err |-> "none"]
    ELSE IF "append_to_file" \in DOMAIN node
    THEN LET name == substitute(node.append_to_file, node_env)
             stdout_filename ==
                 realpath(IF isabs(name.val) THEN name.val
                          ELSE pjoin(env[<<"PWD">>], name.val))
         IN  IF ~name.ok
             THEN [kind |-> "raise", path |-> <<>>, err |-> SubstituteError(name)]
             ELSE IF StartsWith(stdout_filename, temp_dir)
             THEN [kind |-> "raise", path |-> <<>>, err |-> "RedirectToTempForbidden"]
             ELSE IF dirname(stdout_filename) \notin ExistingDirs \cup DOMAIN disk
             THEN [kind |-> "raise", path |-> <<>>, err |-> "IOError"]
             ELSE [kind |-> "file", path |-> stdout_filename, err |-> "none"]
    ELSE [kind |-> "none", path |-> <<>>, err |-> "none"]

\* the files once `out` was written to the sink `to`; file(stdout_filename, 'a') makes
\* the file
AppendTo(fs, to, out) ==
    IF to.kind = "file"
    THEN DictSet(fs, to.path, (IF to.path \in DOMAIN fs THEN fs[to.path] ELSE <<>>) \o out)
    ELSE fs

\* logged_check_call(args, node_env, stdout_to) and what handle_command_nodes does next
\* a platform test that lets log pipes through to the simple supervisor
LogPipesRejected_never(p, registry) == FALSE

\* the simple supervisor is asked to run with log pipes registered
LogPipesRejected(p, registry) == p = "simple" /\ DOMAIN registry # {}

logged_check_call(node, args, node_env, to) ==
    IF PopenNotFound(args, node_env)
    THEN /\ LogAndRaise(node, "CommandNotFound", <<<<"command not found">>>>)
         /\ files' = AppendTo(files, to, <<>>)
         /\ UNCHANGED <<last_env, platform, child, nspawned>>
    ELSE \E p \in Platforms :
            /\ platform' = p
            /\ nspawned' = nspawned + 1
            /\ IF LogPipesRejected(p, log_fifo_filenames)
               THEN /\ child' = [status |-> "running", env |-> node_env,
                                 unread |-> ProgramOutput(args, node_env)]
                    /\ Raise(node, "LogPipesUnsupported")
                    /\ files' = AppendTo(files, to, <<>>)
                    /\ UNCHANGED last_env
               ELSE \E fwd \in Supervised(ProgramOutput(args, node_env)) :
                       /\ child' = [status |-> "reaped", env |-> node_env,
                                    unread |-> SubSeq(ProgramOutput(args, node_env),
                                                      Len(fwd) + 1,
                                                      Len(ProgramOutput(args, node_env)))]
                       /\ files' = AppendTo(files, to, fwd)
                       /\ IF ProgramExit(args, node_env) # 0
                          THEN /\ LogAndRaise(node, "CommandFailed",
                                              <<<<"CalledProcessError">>, <<"command failed">>>>)
                               /\ UNCHANGED last_env
                          ELSE /\ NodeDone(node, EnvAfterCommand(node, Top.env, fwd))
                               /\ last_env' = LastEnv(node_env,
                                                      EnvAfterCommand(node, Top.env, fwd))

\* handle_command_nodes for a cmd node
handle_cmd(node) ==
    /\ pc = "run" /\ MoreNodes
    /\ NodeKinds(node) = {"cmd"}
    /\ LET ins == dump_inputs(NodeInputs(node), NodePos)
           node_env == DictUpdate(Top.env, ins.env)
           args == SubstituteAll(node.cmd, node_env)
           to == StdoutTo(node, node_env, Top.env)
       IN  IF CommandNodeInvalid(node)
           THEN /\ Raise(node, "ValueError")
                /\ UNCHANGED <<last_env, platform, child, nspawned, files, disk>>
           ELSE /\ disk' = [disk EXCEPT ![temp_dir] = @ \cup ins.dumped]
                /\ IF ~ins.ok
                   THEN /\ Raise(node, "BadInput")
                        /\ UNCHANGED <<last_env, platform, child, nspawned, files>>
                   ELSE IF ~args.ok
                   THEN /\ SubstituteRaised(node, SubstituteError(args))
                        /\ UNCHANGED <<last_env, platform, child, nspawned, files>>
                   ELSE IF to.kind = "raise"
                   THEN /\ SubstituteRaised(node, to.err)
                        /\ UNCHANGED <<last_env, platform, child, nspawned, files>>
                   ELSE logged_check_call(node, args.val, node_env, to)
    /\ UNCHANGED <<node_frame, log_fifo_filenames>>
    /\ UNCHANGED <<sup_state, fn_vars>>

LogLevels == {<<"CRITICAL">>, <<"ERROR">>, <<"WARNING">>, <<"INFO">>, <<"DEBUG">>}

\* the FIFO create_log_pipe names for (sublogger_name, level_str)
LogPipeName(sublogger_name, level_str) ==
    pjoin(temp_dir, <<"logpipe-">> \o sublogger_name \o <<"-">> \o level_str)

\* self.log_fifo_filenames[sublogger_name, level] = fifo_filename
RegisterLogPipe(registry, key, fifo_filename) == DictSet(registry, key, fifo_filename)

\* run_hit(args, node_env, stdout_to) for `hit logpipe`, and what handle_command_nodes
\* does next
create_log_pipe(node, args, node_env, to, dumped) ==
    IF Len(args) # 3 \/ args[3] \notin LogLevels
    THEN /\ LogAndRaise(node, "HitFailed", <<<<"hit command failed">>>>)
         /\ files' = AppendTo(files, to, <<>>)
         /\ disk' = [disk EXCEPT ![temp_dir] = @ \cup dumped]
         /\ UNCHANGED <<last_env, log_fifo_filenames>>
    ELSE LET key == <<args[2], args[3]>>
             fifo_filename == IF key \in DOMAIN log_fifo_filenames
                              THEN log_fifo_filenames[key]
                              ELSE LogPipeName(args[2], args[3])
         IN  /\ IF key \in DOMAIN log_fifo_filenames
                THEN /\ disk' = [disk EXCEPT ![temp_dir] = @ \cup dumped]
                     /\ UNCHANGED log_fifo_filenames
                ELSE /\ log_fifo_filenames' =
                            RegisterLogPipe(log_fifo_filenames, key, fifo_filename)
                     /\ disk' = [disk EXCEPT ![temp_dir] = @ \cup dumped \cup {fifo_filename}]
             /\ files' = AppendTo(files, to, fifo_filename)
             \* run_hit ends with `return retcode`, and nothing has bound retcode on
             \* this path: the name is written to the sink, the level and stdout are
             \* restored, and UnboundLocalError leaves run_hit, outside its try block
             /\ Raise(node, "UnboundLocalError")
             /\ UNCHANGED last_env

\* handle_command_nodes for a hit node
handle_hit(node) ==
    /\ pc = "run" /\ MoreNodes
    /\ NodeKinds(node) = {"hit"}
    /\ LET ins == dump_inputs(NodeInputs(node), NodePos)
           after_inputs == [disk EXCEPT ![temp_dir] = @ \cup ins.dumped]
           node_env == DictUpdate(Top.env, ins.env)
           args == SubstituteAll(node.hit, node_env)
           to == StdoutTo(node, node_env, Top.env)
       IN  IF CommandNodeInvalid(node)
           THEN /\ Raise(node, "ValueError")
                /\ UNCHANGED <<last_env, log_fifo_filenames, disk, files>>
           ELSE IF ~ins.ok
           THEN /\ Raise(node, "BadInput")
                /\ disk' = after_inputs
                /\ UNCHANGED <<last_env, log_fifo_filenames, files>>
           ELSE IF ~args.ok
           THEN /\ SubstituteRaised(node, SubstituteError(args))
                /\ disk' = after_inputs
                /\ UNCHANGED <<last_env, log_fifo_filenames, files>>
           ELSE IF to.kind = "raise"
           THEN /\ SubstituteRaised(node, to.err)
                /\ disk' = after_inputs
                /\ UNCHANGED <<last_env, log_fifo_filenames, files>>
           ELSE IF Len(args.val) >= 1 /\ args.val[1] = <<"logpipe">>
           THEN create_log_pipe(node, args.val, node_env, to, ins.dumped)
           ELSE \* the hit tool itself: it succeeds or fails
                \E tool_ok \in BOOLEAN :
                    /\ files' = AppendTo(files, to, <<>>)
                    /\ disk' = after_inputs
                    /\ IF tool_ok
                       THEN /\ NodeDone(node, EnvAfterCommand(node, Top.env, <<>>))
                            /\ last_env' = LastEnv(node_env,
                                                   EnvAfterCommand(node, Top.env, <<>>))
                            /\ UNCHANGED log_fifo_filenames
                       ELSE /\ LogAndRaise(node, "HitFailed", <<<<"hit command failed">>>>)
                            /\ UNCHANGED <<last_env, log_fifo_filenames>>
    /\ UNCHANGED <<node_frame, platform, child, nspawned>>
    /\ UNCHANGED <<sup_state, fn_vars>>

Next ==
    \/ canonicalize_job_spec
    \/ handle_import
    \/ handle_imports_return
    \/ run_job_env
    \/ executor_init
    \/ \E node \in NodesHere : run_node_invalid(node)
    \/ \E node \in NodesHere : run_node_empty(node)
    \/ \E node \in NodesHere : handle_chdir(node)
    \/ \E node \in NodesHere : handle_set(node)
    \/ \E node \in NodesHere : handle_append_path(node)
    \/ \E node \in NodesHere : handle_prepend_path(node)
    \/ \E node \in NodesHere : handle_append_flag(node)
    \/ \E node \in NodesHere : handle_prepend_flag(node)
    \/ \E node \in NodesHere : handle_cmd(node)
    \/ \E node \in NodesHere : handle_hit(node)
    \/ \E node \in CommandsHere : handle_commands(node)
    \/ run_command_list_end
    \/ run_job_end
    \/ close

Spec == Init /\ [][Next]_vars

(***************************************************************************)
(* A supervised call: the child, the kernel's pipes, and the two ways      *)
(* logged_check_call multiplexes the child's output.                       *)
(***************************************************************************)
LOG_PIPE_BUFSIZE == 4096

\* how many writes, FIFO opens and FIFO closes a child makes at most
MaxChildOps == 3

stdout_fd == <<"stdout">>

stderr_fd == <<"stderr">>

\* the FIFOs of the registry
Fifos == Range(log_fifo_filenames)

\* what one write of the child may hold
Writes == {<<"a">>, <<"\n">>, <<"\r">>}

\* a write one byte longer than a read takes
BigWrite == [k \in 1..(LOG_PIPE_BUFSIZE + 1) |-> "a"]

\* the run_job state a supervised call is made in: a command of the top-level list
InLoggedCheckCall ==
    /\ job_spec = [import |-> <<>>, has_commands |-> TRUE]
    /\ family = "core"
    /\ override_env = EmptyDict
    /\ pc = "run"
    /\ error = NoError
    /\ imp_i = 0
    /\ HDIST_IMPORT = <<>>
    /\ HDIST_IMPORT_PATHS = <<>>
    /\ scopes = <<[env |-> EmptyDict, i |-> 1, owner |-> EmptyDict]>>
    /\ last_env = None
    /\ rm_temp_dir = TRUE
    /\ temp_dir = MadeTempDir
    /\ temp_dir_arg = None
    /\ child = NoChild
    /\ nspawned = 1
    /\ nodes_run = 1
    /\ result = [returned |-> FALSE, value |-> None]
    /\ s2 = -1
    /\ files = EmptyDict

\* the registry a supervised call may find
Registries ==
    {EmptyDict,
     [key \in {<<<<"H">>, <<"INFO">>>>} |-> pjoin(MadeTempDir, <<"logpipe-", "H", "-", "INFO">>)]}

run_job_vars ==
    <<job_spec, family, override_env, pc, error, imp_i, HDIST_IMPORT, HDIST_IMPORT_PATHS, scopes, last_env,
      log_fifo_filenames, rm_temp_dir, temp_dir, temp_dir_arg, disk, platform, child,
      nspawned, nodes_run, result, s2, files>>

\* subprocess.Popen(..., stdin=PIPE, stdout=PIPE, stderr=PIPE) has returned
Popen ==
    /\ proc = [alive |-> TRUE, nops |-> 0, wfifos |-> {}, retcode |-> 0]
    /\ pipe = [fd \in {stdout_fd, stderr_fd} \cup Fifos |-> <<>>]
    /\ written = [fd \in {stdout_fd, stderr_fd} \cup Fifos |-> <<>>]
    /\ consumed = [fd \in {stdout_fd, stderr_fd} \cup Fifos |-> <<>>]
    /\ armed = {}
    /\ log = <<>>
    /\ retcode = None
    /\ stdout_to \in {None, Some(<<>>)}

(***************************************************************************)
(* The child.  Its writes never fill a pipe (they are far below the pipe   *)
(* capacity), so they never block.                                         *)
(***************************************************************************)
child_write ==
    /\ proc.alive /\ proc.nops < MaxChildOps
    /\ \E fd \in {stdout_fd, stderr_fd} :
       \E s \in Writes \cup (IF fd = stdout_fd /\ written[fd] = <<>> THEN {BigWrite} ELSE {}) :
           /\ pipe' = [pipe EXCEPT ![fd] = @ \o s]
           /\ written' = [written EXCEPT ![fd] = @ \o s]
    /\ proc' = [proc EXCEPT !.nops = @ + 1]
    /\ UNCHANGED <<run_job_vars, fn_vars, sv_pc, stdout_to, armed, consumed, buffers, registered,
                   fd_to_logpipe, loggers, events, log, retcode>>

\* open(fifo, O_WRONLY): returns once the FIFO has a reader
child_fifo_open ==
    /\ proc.alive /\ proc.nops < MaxChildOps
    /\ \E f \in Fifos \ proc.wfifos :
           /\ f \in DOMAIN fd_to_logpipe
           /\ proc' = [proc EXCEPT !.nops = @ + 1, !.wfifos = @ \cup {f}]
           /\ armed' = armed \cup {f}
    /\ UNCHANGED <<run_job_vars, fn_vars, sv_pc, stdout_to, pipe, written, consumed, buffers,
                   registered, fd_to_logpipe, loggers, events, log, retcode>>

child_fifo_write ==
    /\ proc.alive /\ proc.nops < MaxChildOps
    /\ \E f \in proc.wfifos : \E s \in Writes :
           /\ pipe' = [pipe EXCEPT ![f] = @ \o s]
           /\ written' = [written EXCEPT ![f] = @ \o s]
    /\ proc' = [proc EXCEPT !.nops = @ + 1]
    /\ UNCHANGED <<run_job_vars, fn_vars, sv_pc, stdout_to, armed, consumed, buffers, registered,
                   fd_to_logpipe, loggers, events, log, retcode>>

child_fifo_close ==
    /\ proc.alive /\ proc.nops < MaxChildOps
    /\ \E f \in proc.wfifos :
           proc' = [proc EXCEPT !.nops = @ + 1, !.wfifos = @ \ {f}]
    /\ UNCHANGED <<run_job_vars, fn_vars, sv_pc, stdout_to, pipe, armed, written, consumed, buffers,
                   registered, fd_to_logpipe, loggers, events, log, retcode>>

\* the child exits: every descriptor it holds is closed and it can be waited for
child_exit ==
    /\ proc.alive
    /\ \E code \in {0, 1} :
           proc' = [proc EXCEPT !.alive = FALSE, !.wfifos = {}, !.retcode = code]
    /\ UNCHANGED <<run_job_vars, fn_vars, sv_pc, stdout_to, pipe, armed, written, consumed, buffers,
                   registered, fd_to_logpipe, loggers, events, log, retcode>>

(***************************************************************************)
(* What both supervisors do with the bytes of one read.                    *)
(***************************************************************************)
Min(a, b) == IF a < b THEN a ELSE b

\* os.read(fd, LOG_PIPE_BUFSIZE) on a descriptor that has data, or '' if it has none
Read(fd) == SubSeq(pipe[fd], 1, Min(Len(pipe[fd]), LOG_PIPE_BUFSIZE))

AfterRead(fd) == SubSeq(pipe[fd], Len(Read(fd)) + 1, Len(pipe[fd]))

LineBreaks == {"\n", "\r"}

\* the one element of a set of one: its value, worked out once
Only(S) == CHOOSE x \in S : TRUE

\* where the lines of str end: at "\n", at a "\r" that no "\n" follows, and at the end
LineEnds(str) ==
    {i \in 1..Len(str) :
        \/ str[i] = "\n"
        \/ str[i] = "\r" /\ ~(i < Len(str) /\ str[i + 1] = "\n")
        \/ i = Len(str)}

\* str.splitlines(True)
splitlines(s) ==
    Only({Only({[k \in 1..Cardinality(ends) |->
                    Only({SubSeq(str,
                                 IF {x \in ends : x < e} = {} THEN 1
                                 ELSE (CHOOSE x \in ends :
                                           /\ x < e
                                           /\ \A y \in ends : y < e => y <= x) + 1,
                                 e) :
                          e \in {x \in ends : Cardinality({y \in ends : y <= x}) = k}})] :
                ends \in {LineEnds(str)}}) :
          str \in {s}})

\* sublogger.log(level, msg) with sublogger, level = loggers[fd]
Record(fd, msg) == [name |-> loggers[fd].name, level |-> loggers[fd].level, msg |-> msg]

\* buffers[fd] += new_bytes, then the complete lines are taken out and logged
AssembleLines(fd, buf, new_bytes) ==
    Only({LET keep == Last(Last(lines)) # "\n"
              whole == IF keep THEN SubSeq(lines, 1, Len(lines) - 1) ELSE lines
          IN  [buffer |-> IF keep THEN Last(lines) ELSE <<>>,
               records |-> [k \in 1..Len(whole) |->
                               Record(fd, IF Last(whole[k]) = "\n"
                                          THEN SubSeq(whole[k], 1, Len(whole[k]) - 1)
                                          ELSE whole[k])]] :
          lines \in {splitlines(buf \o new_bytes)}})

(***************************************************************************)
(* _log_process_with_logpipes: full mode.  A FIFO read descriptor is named *)
(* by the FIFO's path: close followed by open hands back the same number.  *)
(***************************************************************************)
\* the dicts of the supervisor and what the poller has registered
Dicts == [loggers |-> loggers, buffers |-> buffers, fd_to_logpipe |-> fd_to_logpipe,
          registered |-> registered]

\* open_fifo(fifo_filename, logger, level): os.open hands out fd
open_fifo(d, fd, fifo_filename, logger, level) ==
    [loggers |-> DictSet(d.loggers, fd, [name |-> logger, level |-> level]),
     buffers |-> DictSet(d.buffers, fd, <<>>),
     fd_to_logpipe |-> DictSet(d.fd_to_logpipe, fd, fifo_filename),
     registered |-> d.registered \cup {fd}]

\* close_fifo(fd), after what flush_buffer logs
close_fifo(d, fd) ==
    [loggers |-> [k \in DOMAIN d.loggers \ {fd} |-> d.loggers[k]],
     buffers |-> [k \in DOMAIN d.buffers \ {fd} |-> d.buffers[k]],
     fd_to_logpipe |-> [k \in DOMAIN d.fd_to_logpipe \ {fd} |-> d.fd_to_logpipe[k]],
     registered |-> d.registered \ {fd}]

\* a hung-up FIFO that is closed and left closed
reopen_fifo_closeonly(d, fd) == close_fifo(d, fd)

\* reopen_fifo(fd): the new descriptor has the number of the one just closed
reopen_fifo(d, fd) ==
    open_fifo(close_fifo(d, fd), fd, d.fd_to_logpipe[fd], d.loggers[fd].name,
              d.loggers[fd].level)

\* the registry's items(), in the order the dict lists them
RegistryItems ==
    CHOOSE q \in [1..Cardinality(DOMAIN log_fifo_filenames) -> DOMAIN log_fifo_filenames] :
        Range(q) = DOMAIN log_fifo_filenames

\* poller.register(stdout_fd), poller.register(stderr_fd), the loggers and buffers of
\* the two, then open_fifo for every entry of the registry; no writer can be there yet
open_fifos ==
    /\ sv_pc = "setup"
    /\ LET start == [loggers |-> [fd \in {stdout_fd, stderr_fd} |->
                                     [name |-> <<>>, level |-> <<"DEBUG">>]],
                     buffers |-> [fd \in {stdout_fd, stderr_fd} |-> <<>>],
                     fd_to_logpipe |-> EmptyDict,
                     registered |-> {stdout_fd, stderr_fd}]
           F[k \in 0..Len(RegistryItems)] ==
               IF k = 0 THEN start
               ELSE open_fifo(F[k - 1], log_fifo_filenames[RegistryItems[k]],
                              log_fifo_filenames[RegistryItems[k]],
                              RegistryItems[k][1], RegistryItems[k][2])
           d == F[Len(RegistryItems)]
       IN  /\ registered' = d.registered
           /\ buffers' = d.buffers
           /\ fd_to_logpipe' = d.fd_to_logpipe
           /\ loggers' = d.loggers
    /\ sv_pc' = "poll"
    /\ UNCHANGED <<run_job_vars, fn_vars, stdout_to, proc, pipe, armed, written, consumed, events,
                   log, retcode>>

\* the FIFOs in the order the registry's items() lists them
FifoOrder == CHOOSE q \in [1..Cardinality(Fifos) -> Fifos] : Range(q) = Fifos

\* the order poll reports descriptors in
FdOrder == <<stdout_fd, stderr_fd>> \o FifoOrder

\* kernel: all write ends of the descriptor's pipe are closed
HungUp(fd) ==
    IF fd \in {stdout_fd, stderr_fd} THEN ~proc.alive
    ELSE fd \notin proc.wfifos /\ fd \in armed

\* kernel: revents of a registered descriptor
Revents(fd) ==
    (IF pipe[fd] # <<>> THEN {"POLLIN"} ELSE {}) \cup (IF HungUp(fd) THEN {"POLLHUP"} ELSE {})

\* events = poller.poll(50): what is ready now, or nothing once 50 ms have passed
PollEvents ==
    LET F[k \in 0..Len(FdOrder)] ==
            IF k = 0 THEN <<>>
            ELSE IF FdOrder[k] \in registered /\ Revents(FdOrder[k]) # {}
            THEN Append(F[k - 1], [fd |-> FdOrder[k], reason |-> Revents(FdOrder[k])])
            ELSE F[k - 1]
    IN  F[Len(FdOrder)]

poll_tick ==
    /\ sv_pc = "poll"
    /\ events' = PollEvents
    /\ sv_pc' = IF PollEvents = <<>> THEN "proc_poll" ELSE "events"
    /\ UNCHANGED <<run_job_vars, fn_vars, stdout_to, proc, pipe, armed, written, consumed, buffers,
                   registered, fd_to_logpipe, loggers, log, retcode>>

\* len(events) == 0: break if proc.poll() is not None
proc_poll ==
    /\ sv_pc = "proc_poll"
    /\ sv_pc' = IF proc.alive THEN "poll" ELSE "finish"
    /\ UNCHANGED <<run_job_vars, fn_vars, stdout_to, proc, pipe, armed, written, consumed, buffers,
                   registered, fd_to_logpipe, loggers, events, log, retcode>>

\* on to the next event of the list, or back to poll
EventDone ==
    /\ events' = Tail(events)
    /\ sv_pc' = IF Tail(events) = <<>> THEN "poll" ELSE "events"

\* flush_buffer(fd): what it logs
FlushRecords(fd) ==
    IF fd \in DOMAIN buffers /\ buffers[fd] # <<>> THEN <<Record(fd, buffers[fd])>> ELSE <<>>

\* kernel: the last descriptor of a FIFO is closed and what the FIFO held is dropped
AfterClose(f, data) == IF f \in proc.wfifos THEN data ELSE <<>>

\* POLLHUP without POLLIN on a FIFO: reopen_fifo(fd)
event_hup_fifo ==
    /\ sv_pc = "events"
    /\ LET fd == Head(events).fd
           reason == Head(events).reason
       IN  /\ "POLLHUP" \in reason /\ "POLLIN" \notin reason
           /\ fd \in DOMAIN fd_to_logpipe
           /\ log' = log \o FlushRecords(fd)
           /\ LET d == reopen_fifo(Dicts, fd)
              IN  /\ loggers' = d.loggers
                  /\ buffers' = d.buffers
                  /\ fd_to_logpipe' = d.fd_to_logpipe
                  /\ registered' = d.registered
           /\ pipe' = [pipe EXCEPT ![fd] = AfterClose(fd, @)]
           /\ armed' = IF fd \in proc.wfifos THEN armed \cup {fd} ELSE armed \ {fd}
    /\ EventDone
    /\ UNCHANGED <<run_job_vars, fn_vars, stdout_to, proc, written, consumed, retcode>>

\* a poller that keeps a descriptor it is asked to drop
unregister_keep(fds, fd) == fds

\* poller.unregister(fd)
unregister(fds, fd) == fds \ {fd}

\* POLLHUP without POLLIN on stdout or stderr: poller.unregister(fd)
event_hup_std ==
    /\ sv_pc = "events"
    /\ LET fd == Head(events).fd
           reason == Head(events).reason
       IN  /\ "POLLHUP" \in reason /\ "POLLIN" \notin reason
           /\ fd \notin DOMAIN fd_to_logpipe
           /\ registered' = IF fd \in {stdout_fd, stderr_fd} THEN unregister(registered, fd)
                            ELSE registered
    /\ EventDone
    /\ UNCHANGED <<run_job_vars, fn_vars, stdout_to, proc, pipe, armed, written, consumed, buffers,
                   fd_to_logpipe, loggers, log, retcode>>

\* POLLIN on stdout with a sink: one read, forwarded
event_in_forward ==
    /\ sv_pc = "events"
    /\ LET fd == Head(events).fd
           reason == Head(events).reason
       IN  /\ "POLLIN" \in reason
           /\ stdout_to # None /\ fd = stdout_fd
           /\ stdout_to' = Some(stdout_to[1] \o Read(fd))
           /\ consumed' = [consumed EXCEPT ![fd] = @ \o Read(fd)]
           /\ pipe' = [pipe EXCEPT ![fd] = AfterRead(fd)]
    /\ EventDone
    /\ UNCHANGED <<run_job_vars, fn_vars, proc, armed, written, buffers, registered, fd_to_logpipe, loggers,
                   log, retcode>>

\* POLLIN otherwise: one read, appended to the fragment, complete lines logged
event_in_log ==
    /\ sv_pc = "events"
    /\ LET fd == Head(events).fd
           reason == Head(events).reason
       IN  /\ "POLLIN" \in reason
           /\ ~(stdout_to # None /\ fd = stdout_fd)
           /\ consumed' = [consumed EXCEPT ![fd] = @ \o Read(fd)]
           /\ pipe' = [pipe EXCEPT ![fd] = AfterRead(fd)]
           /\ \E r \in {AssembleLines(fd, buffers[fd], Read(fd))} :
                  /\ buffers' = [buffers EXCEPT ![fd] = r.buffer]
                  /\ log' = log \o r.records
    /\ EventDone
    /\ UNCHANGED <<run_job_vars, fn_vars, stdout_to, proc, armed, written, registered,
                   fd_to_logpipe, loggers, retcode>>

\* after the loop: flush_buffer(stderr_fd), flush_buffer(stdout_fd), close_fifo for
\* every FIFO, retcode = proc.wait()
logpipes_return ==
    /\ sv_pc = "finish"
    /\ ~proc.alive
    /\ log' = log \o FlushRecords(stderr_fd) \o FlushRecords(stdout_fd)
                  \o Join(<<>>, [k \in 1..Len(FifoOrder) |-> FlushRecords(FifoOrder[k])])
    /\ buffers' = EmptyDict
    /\ registered' = registered \ DOMAIN fd_to_logpipe
    /\ fd_to_logpipe' = EmptyDict
    /\ loggers' = [fd \in DOMAIN loggers \ DOMAIN fd_to_logpipe |-> loggers[fd]]
    /\ pipe' = [fd \in DOMAIN pipe |->
                   IF fd \in DOMAIN fd_to_logpipe THEN AfterClose(fd, pipe[fd]) ELSE pipe[fd]]
    /\ armed' = {}
    /\ retcode' = Some(proc.retcode)
    /\ sv_pc' = "returned"
    /\ UNCHANGED <<run_job_vars, fn_vars, stdout_to, proc, written, consumed, events>>

InitPoll ==
    /\ InLoggedCheckCall
    /\ FnIdle
    /\ log_fifo_filenames \in Registries
    /\ disk = [d \in {MadeTempDir} |-> Range(log_fifo_filenames)]
    /\ platform = "full"
    /\ Popen
    /\ sv_pc = "setup"
    /\ buffers = EmptyDict
    /\ registered = {}
    /\ fd_to_logpipe = EmptyDict
    /\ loggers = EmptyDict
    /\ events = <<>>

NextPoll ==
    \/ child_write
    \/ child_fifo_open
    \/ child_fifo_write
    \/ child_fifo_close
    \/ child_exit
    \/ open_fifos
    \/ poll_tick
    \/ proc_poll
    \/ event_hup_fifo
    \/ event_hup_std
    \/ event_in_forward
    \/ event_in_log
    \/ logpipes_return

SpecPoll == InitPoll /\ [][NextPoll]_vars

\* the steps of the supervisor: it is a running thread, and poller.poll(50) returns
\* after 50 ms at the latest, so a step that stays possible is taken
SupervisorStep ==
    \/ open_fifos
    \/ poll_tick
    \/ proc_poll
    \/ event_hup_fifo
    \/ event_hup_std
    \/ event_in_forward
    \/ event_in_log
    \/ logpipes_return

\* the child is under no obligation: it may write for ever or never exit
FairSpecPoll == SpecPoll /\ WF_vars(SupervisorStep)

(***************************************************************************)
(* _log_process_simple: simple mode.  Both descriptors are O_NONBLOCK.     *)
(***************************************************************************)
\* one pass of `for fd in fds`: s = os.read(fd, LOG_PIPE_BUFSIZE), '' on EAGAIN
simple_read ==
    /\ sv_pc \in {"read_stdout", "read_stderr"}
    /\ LET fd == IF sv_pc = "read_stdout" THEN stdout_fd ELSE stderr_fd
           s_ == Read(fd)
       IN  /\ consumed' = [consumed EXCEPT ![fd] = @ \o s_]
           /\ pipe' = [pipe EXCEPT ![fd] = AfterRead(fd)]
           /\ IF s_ = <<>>
              THEN UNCHANGED <<stdout_to, buffers, log>>
              ELSE IF stdout_to # None /\ fd = stdout_fd
              THEN /\ stdout_to' = Some(stdout_to[1] \o s_)
                   /\ UNCHANGED <<buffers, log>>
              ELSE LET r == AssembleLines(fd, buffers[fd], s_)
                   IN  /\ buffers' = [buffers EXCEPT ![fd] = r.buffer]
                       /\ log' = log \o r.records
                       /\ UNCHANGED stdout_to
    /\ sv_pc' = IF sv_pc = "read_stdout" THEN "read_stderr" ELSE "proc_poll"
    /\ UNCHANGED <<run_job_vars, fn_vars, proc, armed, written, registered, fd_to_logpipe, loggers, events,
                   retcode>>

\* if proc.poll() is not None: break; otherwise select.select(fds, [], [], 0.05) and
\* the next pass
simple_proc_poll ==
    /\ sv_pc = "proc_poll"
    /\ sv_pc' = IF proc.alive THEN "read_stdout" ELSE "finish"
    /\ UNCHANGED <<run_job_vars, fn_vars, stdout_to, proc, pipe, armed, written, consumed, buffers,
                   registered, fd_to_logpipe, loggers, events, log, retcode>>

\* after the loop: every non-empty fragment is logged, then return proc.wait()
simple_return ==
    /\ sv_pc = "finish"
    /\ ~proc.alive
    /\ log' = log \o FlushRecords(stdout_fd) \o FlushRecords(stderr_fd)
    /\ retcode' = Some(proc.retcode)
    /\ sv_pc' = "returned"
    /\ UNCHANGED <<run_job_vars, fn_vars, stdout_to, proc, pipe, armed, written, consumed, buffers,
                   registered, fd_to_logpipe, loggers, events>>

InitSimple ==
    /\ InLoggedCheckCall
    /\ FnIdle
    /\ log_fifo_filenames = EmptyDict
    /\ disk = [d \in {MadeTempDir} |-> {}]
    /\ platform = "simple"
    /\ Popen
    /\ sv_pc = "read_stdout"
    /\ buffers = [fd \in {stdout_fd, stderr_fd} |-> <<>>]
    /\ registered = {}
    /\ fd_to_logpipe = EmptyDict
    /\ loggers = [fd \in {stdout_fd, stderr_fd} |-> [name |-> <<>>, level |-> <<"DEBUG">>]]
    /\ events = <<>>

NextSimple ==
    \/ child_write
    \/ child_exit
    \/ simple_read
    \/ simple_proc_poll
    \/ simple_return

SpecSimple == InitSimple /\ [][NextSimple]_vars

(***************************************************************************)
(* The module-level functions called on their own: the HDIST_VIRTUALS      *)
(* codec and substitute.                                                   *)
(***************************************************************************)
\* the longest value of a virtuals mapping
MaxValueLen == 2

\* the longest string handed to substitute
MaxTemplateLen == 4

\* all strings over the symbols S of length at most n
Strings(S, n) == UNION {[1..k -> S] : k \in 0..n}

VirtualsKeys == {<<"a">>, <<"b">>}

VirtualsValues == Strings({"c", "=", ";"}, MaxValueLen)

\* the mappings pack_virtuals_envvar is given
VirtualsMaps == UNION {[K -> VirtualsValues] : K \in SUBSET VirtualsKeys}

\* the strings and the env substitute is given
Templates == Strings({"\\", "$", "a"}, MaxTemplateLen)

TemplateEnv == [name \in {<<"a">>} |-> <<"1">>]

\* unpack_virtuals_envvar(x): dict() refuses an entry that is not a pair
unpack_virtuals_envvar(x) ==
    IF x = <<>> THEN Ok(EmptyDict)
    ELSE LET entries == Split(x, ";")
             tups == [k \in 1..Len(entries) |-> Split(entries[k], "=")]
             last(key) == CHOOSE k \in 1..Len(tups) :
                              /\ tups[k][1] = key
                              /\ \A j \in (k + 1)..Len(tups) : tups[j][1] # key
         IN  IF \E k \in 1..Len(tups) : Len(tups[k]) # 2 THEN Err("ValueError")
             ELSE Ok([key \in {tups[k][1] : k \in 1..Len(tups)} |-> tups[last(key)][2]])

call_frame == <<run_job_vars, sup_vars, hit_vars, prof_vars>>

\* x = pack_virtuals_envvar(v)
call_pack_virtuals_envvar ==
    /\ fn_pc = "call" /\ fn_arg.f = "virtuals"
    /\ fn_res' = Ok(pack_virtuals_envvar(fn_arg.v))
    /\ fn_pc' = "packed"
    /\ UNCHANGED <<call_frame, fn_arg>>

\* unpack_virtuals_envvar(x)
call_unpack_virtuals_envvar ==
    /\ fn_pc = "packed"
    /\ fn_res' = unpack_virtuals_envvar(fn_res.val)
    /\ fn_pc' = "unpacked"
    /\ UNCHANGED <<call_frame, fn_arg>>

\* substitute(x, env)
call_substitute ==
    /\ fn_pc = "call" /\ fn_arg.f = "substitute"
    /\ fn_res' = substitute(fn_arg.x, TemplateEnv)
    /\ fn_pc' = "substituted"
    /\ UNCHANGED <<call_frame, fn_arg>>

InitFn ==
    /\ InLoggedCheckCall
    /\ log_fifo_filenames = EmptyDict
    /\ disk = [d \in {MadeTempDir} |-> {}]
    /\ platform = "unread"
    /\ SupIdle
    /\ HitIdle
    /\ ProfIdle
    /\ fn_pc = "call"
    /\ \/ fn_arg \in [f : {"virtuals"}, v : VirtualsMaps]
       \/ fn_arg \in [f : {"substitute"}, x : Templates]
    /\ fn_res = <<>>

NextFn ==
    \/ call_pack_virtuals_envvar
    \/ call_unpack_virtuals_envvar
    \/ call_substitute

SpecFn == InitFn /\ [][NextFn]_vars

(***************************************************************************)
(* run_hit called on its own: the frame it puts around the tool.  The      *)
(* argument list is the node's, without the 'hit' run_hit puts in front.   *)
(***************************************************************************)
\* the levels of hdist_logging, lowest first
LevelOrder == <<"DEBUG", "INFO", "WARNING", "ERROR", "CRITICAL">>

LevelIndex(level) == CHOOSE k \in 1..Len(LevelOrder) : LevelOrder[k] = level

\* the argument lists run_hit is called with
HitArgs ==
    {<<>>,
     <<<<"logpipe">>>>,
     <<<<"logpipe">>, <<"H">>>>,
     <<<<"logpipe">>, <<"H">>, <<"INFO">>>>,
     <<<<"logpipe">>, <<"H">>, <<"LOUD">>>>,
     <<<<"logpipe">>, <<"H">>, <<"INFO">>, <<"more">>>>,
     <<<<"fetch">>>>}

\* a frame that turns the level to WARNING whatever it was
EnterLevel_warning(level) == "WARNING"

\* if logger.level > DEBUG: logger.level = WARNING
EnterLevel(level) == IF LevelIndex(level) > LevelIndex("DEBUG") THEN "WARNING" ELSE level

\* what the tool behind command_line_entry_point may do
ToolOutcomes == {"zero", "nonzero", "SystemExit", "Exception"}

hit_call_frame == <<run_job_vars, sup_state, fn_pc, fn_arg, fn_res, prof_vars>>

\* old_level = logger.level, old_stdout = sys.stdout, then the first two statements of
\* the try block (the log keeps the records of logger.error only)
hit_enter ==
    /\ hit_pc = "call"
    /\ hit_frame' = [hit_frame EXCEPT !.old_level = logger_level, !.old_stdout = sys_stdout]
    /\ logger_level' = EnterLevel(logger_level)
    /\ sys_stdout' = IF hit_frame.stdout_to # None THEN "sink" ELSE sys_stdout
    /\ hit_pc' = "body"
    /\ UNCHANGED <<hit_call_frame, log>>

\* logger.error("hit command failed: ...") in the except clause; the exception goes on
HitFailed(exc) ==
    /\ log' = Append(log, ErrorRecord(<<"hit command failed">>))
    /\ hit_frame' = [hit_frame EXCEPT !.exc = exc]

\* the `hit logpipe` branch: the argument count, then create_log_pipe
hit_logpipe ==
    /\ hit_pc = "body"
    /\ Len(hit_frame.args) >= 1 /\ hit_frame.args[1] = <<"logpipe">>
    /\ LET args == hit_frame.args
       IN  IF Len(args) # 3
           THEN HitFailed("ValueError") /\ UNCHANGED <<run_job_vars>>
           ELSE IF args[3] \notin LogLevels
           THEN HitFailed("KeyError") /\ UNCHANGED <<run_job_vars>>
           ELSE LET key == <<args[2], args[3]>>
                    fifo_filename == IF key \in DOMAIN log_fifo_filenames
                                     THEN log_fifo_filenames[key]
                                     ELSE LogPipeName(args[2], args[3])
                IN  /\ log_fifo_filenames' =
                           IF key \in DOMAIN log_fifo_filenames THEN log_fifo_filenames
                           ELSE RegisterLogPipe(log_fifo_filenames, key, fifo_filename)
                    /\ disk' = [disk EXCEPT ![temp_dir] = @ \cup {fifo_filename}]
                    /\ hit_frame' = [hit_frame EXCEPT !.wrote = <<sys_stdout, fifo_filename>>]
                    /\ UNCHANGED <<job_spec, family, override_env, pc, error, imp_i,
                                   HDIST_IMPORT, HDIST_IMPORT_PATHS, scopes, last_env,
                                   rm_temp_dir, temp_dir, temp_dir_arg, platform, child,
                                   nspawned, nodes_run, result, s2, files, log>>
    /\ hit_pc' = "finally"
    /\ UNCHANGED <<sup_state, fn_pc, fn_arg, fn_res, prof_vars, logger_level, sys_stdout>>

\* any other tool: retcode = command_line_entry_point(args, env, logger); a non-zero
\* retcode reaches `raise RuntimeError(... % ret)`, where ret is no name: NameError
hit_tool ==
    /\ hit_pc = "body"
    /\ ~(Len(hit_frame.args) >= 1 /\ hit_frame.args[1] = <<"logpipe">>)
    /\ \E outcome \in ToolOutcomes :
           IF outcome = "zero"
           THEN hit_frame' = [hit_frame EXCEPT !.retcode = Some(0)] /\ UNCHANGED log
           ELSE HitFailed(IF outcome = "nonzero" THEN "NameError" ELSE outcome)
    /\ hit_pc' = "finally"
    /\ UNCHANGED <<hit_call_frame, logger_level, sys_stdout>>

\* finally: logger.level = old_level; sys.stdout = old_stdout
hit_finally ==
    /\ hit_pc = "finally"
    /\ logger_level' = hit_frame.old_level
    /\ sys_stdout' = hit_frame.old_stdout
    /\ hit_pc' = IF hit_frame.exc # "none" THEN "raised" ELSE "return"
    /\ UNCHANGED <<hit_call_frame, log, hit_frame>>

\* return retcode: a name only the tool branch has bound
hit_return ==
    /\ hit_pc = "return"
    /\ IF hit_frame.retcode = None
       THEN /\ hit_frame' = [hit_frame EXCEPT !.exc = "UnboundLocalError"]
            /\ hit_pc' = "raised"
       ELSE /\ hit_pc' = "returned"
            /\ UNCHANGED hit_frame
    /\ UNCHANGED <<hit_call_frame, log, logger_level, sys_stdout>>

InitHit ==
    /\ InLoggedCheckCall
    /\ log_fifo_filenames = EmptyDict
    /\ disk = [d \in {MadeTempDir} |-> {}]
    /\ platform = "unread"
    /\ SupIdle
    /\ fn_pc = "none" /\ fn_arg = <<>> /\ fn_res = <<>>
    /\ ProfIdle
    /\ hit_pc = "call"
    /\ logger_level \in Range(LevelOrder)
    /\ sys_stdout = "console"
    /\ \E args \in HitArgs, sink \in {None, Some("sink")} :
           hit_frame = [args |-> args, stdout_to |-> sink, level |-> logger_level,
                        old_level |-> "unbound", old_stdout |-> "unbound",
                        retcode |-> None, exc |-> "none", wrote |-> <<>>]

NextHit ==
    \/ hit_enter
    \/ hit_logpipe
    \/ hit_tool
    \/ hit_finally
    \/ hit_return

SpecHit == InitHit /\ [][NextHit]_vars

(***************************************************************************)
(* spec/profile.py: Profile objects built leaves first, and get_packages.  *)
(***************************************************************************)
\* how many Profile objects are built
MaxProfiles == 4

\* how many bases one profile extends
MaxBases == 2

\* an entry of the packages section: a string, or a dict with one key
StrEntry(s) == [vname |-> None, s |-> s]

DictEntry(vname, s) == [vname |-> Some(vname), s |-> s]

\* the profile documents: parameters.global and the packages section
Docs ==
    {[parameters |-> EmptyDict, packages |-> <<>>],
     [parameters |-> [k \in {"k"} |-> <<"1">>], packages |-> <<StrEntry(<<"p">>)>>],
     [parameters |-> [k \in {"k"} |-> <<"2">>], packages |-> <<StrEntry(<<"p", "/", "skip">>)>>],
     [parameters |-> [k \in {"j"} |-> <<"1">>], packages |-> <<DictEntry(<<"p">>, <<"q", "/", "v">>)>>],
     [parameters |-> EmptyDict,
      packages |-> <<StrEntry(<<"q">>), StrEntry(<<"r", "/", "v", "/", "w">>)>>]}

\* the lists of bases a new profile may be given, out of n objects
BaseLists(n) == UNION {[1..m -> 1..n] : m \in 0..MaxBases}

\* for base in extends: for k, v in ...: if k in acc: raise; acc[k] = v
RECURSIVE merge_bases(_, _)
merge_bases(dicts, acc) ==
    IF dicts = <<>> THEN Ok(acc)
    ELSE IF DOMAIN Head(dicts) \cap DOMAIN acc # {} THEN Err("ConflictingProfilesError")
    ELSE merge_bases(Tail(dicts), DictUpdate(acc, Head(dicts)))

\* Profile.__init__: the parameters of the new object, or the error raised
ProfileParameters(profs, doc, extends) ==
    LET r == merge_bases([i \in DOMAIN extends |-> profs[extends[i]].parameters], EmptyDict)
    IN  IF r.ok THEN Ok(DictUpdate(r.val, doc.parameters)) ELSE r

\* parse_entry: (name, None), (name, variant), or ValueError
parse_entry(s) ==
    LET parts == Split(s, "/")
    IN  IF Len(parts) = 1 THEN Ok(<<parts[1], None>>)
        ELSE IF Len(parts) = 2 THEN Ok(<<parts[1], Some(parts[2])>>)
        ELSE Err("ValueError")

\* del packages[vname]
DictDel(d, k) == [x \in DOMAIN d \ {k} |-> d[x]]

\* the loop over the profile's own packages section
RECURSIVE own_packages(_, _)
own_packages(lst, packages) ==
    IF lst = <<>> THEN Ok(packages)
    ELSE LET entry == Head(lst)
             r == parse_entry(entry.s)
         IN  IF ~r.ok THEN r
             ELSE LET name == r.val[1]
                      variant == r.val[2]
                      vname == IF entry.vname = None THEN name ELSE entry.vname[1]
                  IN  IF variant = Some(<<"skip">>)
                      THEN own_packages(Tail(lst), DictDel(packages, vname))
                      ELSE own_packages(Tail(lst), DictSet(packages, vname, <<name, variant>>))

\* Profile.get_packages: the packages of the bases, then the profile's own
RECURSIVE GetPackages(_, _)
RECURSIVE import_from_base(_, _, _)
import_from_base(profs, extends, packages) ==
    IF extends = <<>> THEN Ok(packages)
    ELSE LET r == GetPackages(profs, Head(extends))
         IN  IF ~r.ok THEN r
             ELSE IF DOMAIN r.val \cap DOMAIN packages # {} THEN Err("ConflictingProfilesError")
             ELSE import_from_base(profs, Tail(extends), DictUpdate(packages, r.val))

GetPackages(profs, self) ==
    LET r == import_from_base(profs, profs[self].extends, EmptyDict)
    IN  IF ~r.ok THEN r ELSE own_packages(profs[self].doc.packages, r.val)

\* Profile(basedir, doc_name, doc, extends)
Profile_init ==
    /\ prof_pc = "build"
    /\ Len(profiles) < MaxProfiles
    /\ \E doc \in Docs, extends \in BaseLists(Len(profiles)) :
           LET r == ProfileParameters(profiles, doc, extends)
           IN  /\ prof_call' = [op |-> "init", self |-> Len(profiles) + 1, doc |-> doc,
                                extends |-> extends, res |-> r]
               /\ IF r.ok
                  THEN /\ profiles' = Append(profiles, [doc |-> doc, extends |-> extends,
                                                        parameters |-> r.val])
                       /\ prof_pc' = "build"
                  ELSE /\ prof_pc' = "raised"
                       /\ UNCHANGED profiles
    /\ UNCHANGED <<run_job_vars, sup_vars, fn_pc, fn_arg, fn_res, hit_vars>>

\* profile.get_packages()
get_packages ==
    /\ prof_pc = "build"
    /\ \E self \in DOMAIN profiles :
           LET r == GetPackages(profiles, self)
           IN  /\ prof_call' = [op |-> "get_packages", self |-> self, doc |-> profiles[self].doc,
                                extends |-> profiles[self].extends, res |-> r]
               /\ prof_pc' = IF r.ok THEN "returned" ELSE "raised"
    /\ UNCHANGED <<run_job_vars, sup_vars, fn_pc, fn_arg, fn_res, hit_vars, profiles>>

InitProfile ==
    /\ InLoggedCheckCall
    /\ log_fifo_filenames = EmptyDict
    /\ disk = [d \in {MadeTempDir} |-> {}]
    /\ platform = "unread"
    /\ SupIdle
    /\ fn_pc = "none" /\ fn_arg = <<>> /\ fn_res = <<>>
    /\ HitIdle
    /\ prof_pc = "build"
    /\ profiles = <<>>
    /\ prof_call = <<>>

NextProfile ==
    \/ Profile_init
    \/ get_packages

SpecProfile == InitProfile /\ [][NextProfile]_vars

(***************************************************************************)
(* Claims about run_job (specification Spec).                              *)
(***************************************************************************)
PWD == <<"PWD">>

X == <<"X">>

CAPTURED == <<"CAPTURED">>

\* C1: scope isolation.  While a scope has a sub-list running above it, and at the
\* step that ends the sub-list, no step changes the scope's env: whatever set,
\* prepend_*, append_* or chdir node ran inside the sub-list, at any depth, the
\* enclosing scope is left with the env it had when the sub-list began.
C1_ScopeIsolation ==
    [][\A k \in 1..(Len(scopes) - 1) :
          k <= Len(scopes') /\ scopes'[k].env = scopes[k].env]_vars

\* C1 witness: the sub-list of S2 has set X to 2 and is over; the outer X is still 1
C1_Witness ==
    /\ s2 = 5
    /\ Len(scopes) = 1
    /\ scopes[1].env[X] = <<"1">>
    /\ last_env # None /\ last_env[1][X] = <<"2">>

\* C2 as the spec states it: in scenario S2 the final printenv child sees X=1 and,
\* once the sub-list is over, the outer env holds CAPTURED="2".
C2_S2_Original ==
    /\ s2 \in {5, 6} =>
           CAPTURED \in DOMAIN scopes[1].env /\ scopes[1].env[CAPTURED] = <<"2">>
    /\ s2 = 6 => child.env[X] = <<"1">>

\* C2 amended: in scenario S2 the capture is written into the env of the scope the
\* cmd runs in, the sub-list's own copy (CAPTURED="2" there once the child's whole
\* output was forwarded); the outer env never holds CAPTURED, and the final printenv
\* child sees X=1 and no CAPTURED.
C2_S2_Amended ==
    /\ s2 \in 1..6 => error = NoError
    /\ s2 = 4 =>
           /\ Len(scopes) = 2
           /\ CAPTURED \in DOMAIN scopes[2].env
           /\ child.unread = <<>> => scopes[2].env[CAPTURED] = <<"2">>
    /\ s2 \in 1..6 => CAPTURED \notin DOMAIN scopes[1].env
    /\ s2 = 6 => child.env[X] = <<"1">> /\ CAPTURED \notin DOMAIN child.env

\* C2 witness: S2 has run to its end and its capture saw the whole output
C2_Witness ==
    /\ s2 = 6
    /\ pc = "done"
    /\ nspawned = 2
    /\ child.unread = <<>>
    /\ result.value[1][X] = <<"1">>

\* every scope's env binds PWD to an absolute path
AllPwdAbsolute == \A k \in 1..Len(scopes) : PWD \in DOMAIN scopes[k].env /\ isabs(scopes[k].env[PWD])

PwdModNodes ==
    {n \in LeafNodes :
        \E k \in {"set", "prepend_path", "append_path", "prepend_flag", "append_flag"} :
            k \in DOMAIN n /\ n[k] = PWD}

PwdModStep ==
    \E node \in PwdModNodes :
        \/ handle_set(node)
        \/ handle_prepend_path(node)
        \/ handle_append_path(node)
        \/ handle_prepend_flag(node)
        \/ handle_append_flag(node)

C6_ReapedBeforeError ==
    pc \in {"finally", "failed"} /\ error # NoError =>
        child.status \in {"none", "reaped"} /\ child.unread = <<>>

\* C7: a directory the runner made is gone when run_job returns or raises; one the
\* caller passed is never removed, and if it is not empty on entry no node runs.
C7_TempDirLifecycle ==
    /\ temp_dir_arg = None /\ pc \in {"done", "failed"} => MadeTempDir \notin DOMAIN disk
    /\ temp_dir_arg # None =>
           /\ GivenTempDir \in DOMAIN disk
           /\ <<"junk">> \in disk[GivenTempDir] =>
                  nodes_run = 0 /\ nspawned = 0 /\ pc \notin {"run", "finally", "done"}

\* C7 witness: the runner made the directory, a FIFO was put in it, a later node
\* failed, and the directory is gone when the error has escaped
C7_Witness ==
    /\ temp_dir_arg = None
    /\ pc = "failed"
    /\ temp_dir = MadeTempDir
    /\ DOMAIN log_fifo_filenames # {}
    /\ MadeTempDir \notin DOMAIN disk

\* a comes before b in depth-first document order
PreorderLess(a, b) ==
    \/ Len(a) < Len(b) /\ SubSeq(b, 1, Len(a)) = a
    \/ \E j \in 1..Len(a) :
           /\ j <= Len(b)
           /\ SubSeq(a, 1, j - 1) = SubSeq(b, 1, j - 1)
           /\ a[j] < b[j]

\* C8: nodes run one at a time in depth-first document order; once a node has
\* failed no node runs, no child is spawned, the scopes and the error stay as they
\* are, and run_job ends raising: it never returns a value.
C8_FailStop ==
    /\ [](result.returned => error = NoError)
    /\ [][/\ nodes_run' \in {nodes_run, nodes_run + 1}
          /\ scopes' # scopes /\ pc = "run" => PreorderLess(NodePos, NodePos')
          /\ error # NoError =>
                 /\ nodes_run' = nodes_run
                 /\ nspawned' = nspawned
                 /\ scopes' = scopes
                 /\ last_env' = last_env
                 /\ error' = error
                 /\ pc' = "failed"]_vars

\* C8 witness: a command of a sub-list exited non-zero and the error has escaped
C8_Witness ==
    /\ pc = "failed"
    /\ error.kind = "CommandFailed"
    /\ Len(scopes) = 2
    /\ nodes_run >= 3

\* what the claim expects of import k, from the caller's arguments
ExpectedId(k) ==
    LET id == job_spec.import[k].id
    IN  IF StartsWith(id, <<"virtual", ":">>) THEN virtuals[id] ELSE id

ExpectedDir(k) == BuildStore[ExpectedId(k)]

RefOf(k) == IF "ref" \in DOMAIN job_spec.import[k] THEN job_spec.import[k].ref ELSE None

\* C9: when the import list has resolved, HDIST_IMPORT is the space-join and
\* HDIST_IMPORT_PATHS the pathsep-join of one element per import in list order (the
\* id after virtual substitution, its directory); an import with ref R binds R_DIR
\* and R_ID when it is handled (a later import with the same ref rebinds them), and
\* an import without ref binds nothing.
C9_ImportOrder ==
    /\ [](pc = "prologue" =>
            LET n == Len(job_spec.import)
                env == scopes[1].env
            IN  /\ Len(HDIST_IMPORT) = n /\ Len(HDIST_IMPORT_PATHS) = n
                /\ \A k \in 1..n : HDIST_IMPORT[k] = ExpectedId(k)
                /\ \A k \in 1..n : HDIST_IMPORT_PATHS[k] = ExpectedDir(k)
                /\ env[<<"HDIST_IMPORT">>] = Join(<<" ">>, [k \in 1..n |-> ExpectedId(k)])
                /\ env[<<"HDIST_IMPORT_PATHS">>] = Join(<<":">>, [k \in 1..n |-> ExpectedDir(k)])
                /\ \A k \in 1..n :
                       RefOf(k) # None /\ (\A j \in (k + 1)..n : RefOf(j) # RefOf(k)) =>
                           /\ env[RefOf(k)[1] \o <<"_DIR">>] = ExpectedDir(k)
                           /\ env[RefOf(k)[1] \o <<"_ID">>] = ExpectedId(k)
                /\ DOMAIN env =
                       {<<"HDIST_IMPORT">>, <<"HDIST_IMPORT_PATHS">>}
                           \cup UNION {{RefOf(k)[1] \o <<"_DIR">>, RefOf(k)[1] \o <<"_ID">>} :
                                          k \in {j \in 1..n : RefOf(j) # None}})
    /\ [][imp_i' = imp_i + 1 =>
              IF RefOf(imp_i') = None THEN scopes'[1].env = scopes[1].env
              ELSE /\ scopes'[1].env[RefOf(imp_i')[1] \o <<"_DIR">>] = ExpectedDir(imp_i')
                   /\ scopes'[1].env[RefOf(imp_i')[1] \o <<"_ID">>] = ExpectedId(imp_i')]_vars

\* C9 witness: two imports have resolved, the first virtual, both with the same ref
C9_Witness ==
    /\ pc = "prologue"
    /\ Len(job_spec.import) = 2
    /\ job_spec.import[1].id = <<"virtual", ":", "u">>
    /\ job_spec.import[2].id = <<"a">>
    /\ RefOf(1) # None /\ RefOf(2) # None
    /\ scopes[1].env[<<"HDIST_IMPORT">>] = <<"c", " ", "a">>

\* the imports of the job spec that cannot be resolved, from the caller's arguments
IsVirtual(k) == StartsWith(job_spec.import[k].id, <<"virtual", ":">>)

MissingVirtual(k) == IsVirtual(k) /\ job_spec.import[k].id \notin DOMAIN virtuals

Unbuilt(k) == ~MissingVirtual(k) /\ ExpectedId(k) \notin DOMAIN BuildStore

BadImports == {k \in 1..Len(job_spec.import) : MissingVirtual(k) \/ Unbuilt(k)}

FirstBadImport == CHOOSE k \in BadImports : \A j \in BadImports : k <= j

HasEmptyRef == \E k \in 1..Len(job_spec.import) : RefOf(k) = Some(<<>>)

\* C10 as the spec states it: if some import is a missing virtual or unbuilt, the
\* run fails with the error of the first such import, before any node or child.
C10_ImportFailureFirst_Original ==
    BadImports # {} =>
        /\ nodes_run = 0 /\ nspawned = 0
        /\ pc \in {"canonicalize", "imports", "failed"}
        /\ pc = "failed" =>
               error = [kind |-> IF MissingVirtual(FirstBadImport) THEN "MissingVirtual"
                                 ELSE "UnbuiltDependency",
                        at |-> FirstBadImport]

\* C10 amended: if some import is a missing virtual or unbuilt, the run fails
\* before any command node runs and before any child is spawned; the error is that
\* of the first such import in list order unless some import has an empty-string
\* ref, which the canonicalizer refuses before any import is resolved.
C10_ImportFailureFirst_Amended ==
    BadImports # {} =>
        /\ nodes_run = 0 /\ nspawned = 0
        /\ pc \in {"canonicalize", "imports", "failed"}
        /\ pc = "failed" =>
               IF HasEmptyRef THEN error.kind = "EmptyRef"
               ELSE error = [kind |-> IF MissingVirtual(FirstBadImport) THEN "MissingVirtual"
                                      ELSE "UnbuiltDependency",
                             at |-> FirstBadImport]

\* C10 witness: the second import is the first that cannot be resolved
C10_Witness ==
    /\ pc = "failed"
    /\ Len(job_spec.import) = 2
    /\ BadImports = {2}
    /\ ~HasEmptyRef
    /\ error.kind = "UnbuiltDependency"

(***************************************************************************)
(* Claims about the supervisors (specifications SpecPoll and SpecSimple).  *)
(***************************************************************************)
\* C4 as the spec states it: when _log_process_with_logpipes has returned, the child
\* has exited and every byte it wrote to stdout, stderr and the log pipes was read
\* (and, for a captured stdout, handed to the sink); no pipe holds an unread byte.
C4_FullModeDrains ==
    sv_pc = "returned" /\ platform = "full" =>
        /\ ~proc.alive
        /\ \A fd \in DOMAIN written : consumed[fd] = written[fd] /\ pipe[fd] = <<>>
        /\ stdout_to # None => stdout_to[1] = written[stdout_fd]

\* C5 as the spec states it: when _log_process_simple has returned, the child has
\* exited and every byte it wrote to stdout and stderr, however many, was read and
\* handed to the sink or the logger, no fragment being left in a buffer or a pipe.
C5_SimpleModeDrains ==
    sv_pc = "returned" /\ platform = "simple" =>
        /\ ~proc.alive
        /\ consumed[stdout_fd] = written[stdout_fd] /\ pipe[stdout_fd] = <<>>
        /\ consumed[stderr_fd] = written[stderr_fd] /\ pipe[stderr_fd] = <<>>
        /\ stdout_to # None => stdout_to[1] = written[stdout_fd]
        /\ Len(log) >= Cardinality({fd \in {stdout_fd, stderr_fd} :
                                       /\ ~(stdout_to # None /\ fd = stdout_fd)
                                       /\ written[fd] # <<>>
                                       /\ Last(written[fd]) \notin LineBreaks})

(***************************************************************************)
(* Claims about run_job's results (specification Spec).                    *)
(***************************************************************************)
\* C11 as the spec states it: a job spec without a `commands` key runs no node and
\* spawns nothing; it fails only if some import cannot be resolved (or is refused);
\* and when every import resolves run_job returns the empty mapping.
C11_MissingCommandsKey ==
    ~job_spec.has_commands =>
        /\ nodes_run = 0 /\ nspawned = 0
        /\ pc \in {"done", "failed"} /\ BadImports = {} /\ ~HasEmptyRef =>
               /\ pc = "done"
               /\ result = [returned |-> TRUE, value |-> Some(EmptyDict)]

\* C12 as the spec states it: a job spec whose `commands` list is empty (only the
\* synthetic ARTIFACT node runs) returns the empty mapping.
C12_EmptyCommandsList ==
    job_spec.has_commands /\ pc = "done" /\ nodes_run = 1 =>
        result = [returned |-> TRUE, value |-> Some(EmptyDict)]

(***************************************************************************)
(* Claims about the module-level functions (specification SpecFn).         *)
(***************************************************************************)
\* the text holds the symbol
Has(text, c) == \E i \in 1..Len(text) : text[i] = c

\* C13 as the spec states it: unpack_virtuals_envvar(pack_virtuals_envvar(v)) is v
\* for every mapping v whose entries can be told apart at all (no `;` anywhere), in
\* particular when a value contains `=`; the empty mapping packs to the empty string.
C13_VirtualsRoundTrip ==
    /\ fn_pc = "packed" /\ fn_arg.v = EmptyDict => fn_res = Ok(<<>>)
    /\ fn_pc = "unpacked" /\ (\A k \in DOMAIN fn_arg.v : ~Has(fn_arg.v[k], ";")) =>
           fn_res = Ok(fn_arg.v)


\* C14: registry entries are never removed and never change their path; a `hit logpipe`
\* call with a header and a level succeeds and outputs the path registered for its
\* (header, level); the first call for a key makes the FIFO in the temporary
\* directory, a repeated call leaves the registry and the directory as they are.
LogPipeNodes == {node \in LeafNodes \cup IoNodes :
                    "hit" \in DOMAIN node /\ node.hit[1] = <<"logpipe">>}

LogPipeStep(node) ==
    LET key == <<node.hit[2], node.hit[3]>>
    IN  /\ key \in DOMAIN log_fifo_filenames'
        /\ "to_var" \in DOMAIN node =>
               scopes'[Len(scopes)].env[node.to_var] = log_fifo_filenames'[key]
        /\ IF key \in DOMAIN log_fifo_filenames
           THEN /\ log_fifo_filenames' = log_fifo_filenames
                /\ disk' = disk
           ELSE /\ DOMAIN log_fifo_filenames' = DOMAIN log_fifo_filenames \cup {key}
                /\ log_fifo_filenames'[key] \notin disk[temp_dir]
                /\ disk' = [disk EXCEPT ![temp_dir] = @ \cup {log_fifo_filenames'[key]}]

StructuralErrors == {"ValueError", "InvalidJobSpec"}

C15_ToVarAndFileRejected ==
    [][\A node \in IoNodes :
           /\ {"to_var", "append_to_file"} \subseteq DOMAIN node
           /\ handle_cmd(node) \/ handle_hit(node)
           => /\ error'.kind \in StructuralErrors
              /\ nspawned' = nspawned
              /\ scopes' = scopes
              /\ files' = files]_vars

\* C16: a `commands` node that also carries to_var, append_to_file or inputs is refused
\* as a structural error: the step raises and opens no scope for its sub-list.
BadCommandsKeys == {"to_var", "append_to_file", "inputs"}

C16_CommandsWithKeysRejected ==
    [][\A node \in CommandsHere :
           /\ DOMAIN node \cap BadCommandsKeys # {}
           /\ handle_commands(node)
           => /\ error'.kind \in StructuralErrors
              /\ scopes' = scopes]_vars

\* C17: a cmd/hit node whose append_to_file target (substituted, joined to PWD, made
\* canonical) lies inside the run's temporary directory fails with
\* RedirectToTempForbidden, spawns nothing and opens no file; a target outside the
\* temporary directory is not refused.
RedirectTarget(node, env) ==
    LET name == substitute(node.append_to_file, env).val
    IN  abspath(IF isabs(name) THEN name ELSE pjoin(env[PWD], name))

\* path is dir or lies below it
InsideDir(path, dir) == path = dir \/ StartsWith(path, dir \o <<"/">>)

RedirectNodes == {node \in IoNodes : "append_to_file" \in DOMAIN node /\ "to_var" \notin DOMAIN node}

C17_RedirectGuard ==
    [][\A node \in RedirectNodes :
           /\ handle_cmd(node) \/ handle_hit(node)
           /\ substitute(node.append_to_file, Top.env).ok
           => IF InsideDir(RedirectTarget(node, Top.env), temp_dir)
              THEN /\ error'.kind = "RedirectToTempForbidden"
                   /\ nspawned' = nspawned
                   /\ files' = files
              ELSE error'.kind # "RedirectToTempForbidden"]_vars

\* C18: whenever one of the named errors is in flight or has escaped run_job, the
\* logger has been handed an ERROR record.
NamedErrors ==
    {"MissingVirtual", "UnbuiltDependency", "UnknownVariable", "InvalidJobSpec",
     "CommandNotFound", "CommandFailed", "HitFailed"}

C18_ErrorLoggedBeforeRaise ==
    error.kind \in NamedErrors => \E k \in 1..Len(log) : log[k].level = <<"ERROR">>

\* C19: for a template without `$`, substitute returns the template with each pair of
\* backslashes (taken left to right) turned into one backslash and every other
\* character, a lone backslash included, as it is.
C19_BackslashEscape ==
    fn_pc = "substituted" /\ ~Has(fn_arg.x, "$") =>
        fn_res = Ok(Replace(fn_arg.x, <<"\\", "\\">>, <<"\\">>))

\* C20: whatever handler takes a node, a node with two or more kind keys and a
\* non-empty node with none fail with InvalidJobSpec, leaving env, registry, last_env,
\* the disk and the files alone and spawning nothing; an empty node goes by with env,
\* registry and last_env unchanged.
KindKeys ==
    {"commands", "cmd", "hit", "set", "prepend_path", "append_path", "prepend_flag",
     "append_flag", "chdir"}

StepOn(node) ==
    \/ run_node_invalid(node) \/ run_node_empty(node) \/ handle_commands(node)
    \/ handle_chdir(node) \/ handle_set(node)
    \/ handle_append_path(node) \/ handle_prepend_path(node)
    \/ handle_append_flag(node) \/ handle_prepend_flag(node)
    \/ handle_cmd(node) \/ handle_hit(node)

NoEffect ==
    /\ scopes' = scopes
    /\ log_fifo_filenames' = log_fifo_filenames
    /\ last_env' = last_env
    /\ disk' = disk
    /\ files' = files
    /\ nspawned' = nspawned

C20_KindDispatch ==
    [][\A node \in NodesHere \cup CommandsHere :
           StepOn(node) =>
               IF Cardinality(DOMAIN node \cap KindKeys) >= 2
                  \/ (DOMAIN node \cap KindKeys = {} /\ DOMAIN node # {})
               THEN error'.kind = "InvalidJobSpec" /\ pc' = "finally" /\ NoEffect
               ELSE DOMAIN node = {} =>
                        /\ error' = NoError /\ pc' = "run"
                        /\ scopes'[Len(scopes)].env = Top.env
                        /\ Len(scopes') = Len(scopes)
                        /\ log_fifo_filenames' = log_fifo_filenames
                        /\ last_env' = last_env]_vars

\* a node with several kind keys was refused after another node had run
C20_Witness ==
    /\ error.kind = "InvalidJobSpec"
    /\ log = <<ErrorRecord(<<"Several action types present">>)>>
    /\ Top.i >= 2

\* C21: the env handed to a spawned child is the env of the node that spawned it and
\* holds the guaranteed keys; PATH is empty when the script starts and, within a
\* command list, only a node that targets PATH changes it.
PATH == <<"PATH">>

GuaranteedKeys ==
    {<<"ARTIFACT">>, PATH, PWD, <<"HDIST_IMPORT">>, <<"HDIST_IMPORT_PATHS">>,
     <<"HDIST_VIRTUALS">>, <<"HDIST_CONFIG">>}

\* PATH as env binds it, None when it does not
PathOf(env) == IF PATH \in DOMAIN env THEN Some(env[PATH]) ELSE None

\* the names the inputs of a node are bound to
InputNames(node) == {InputName(k - 1) : k \in 1..Len(NodeInputs(node))}

\* a step in which a child is spawned gives it the env of the scope the node is in,
\* with the node's in<k> names added and nothing else
SpawnStep ==
    nspawned' = nspawned + 1 =>
        /\ \E node \in NodesHere :
               /\ DOMAIN child'.env = DOMAIN Top.env \cup InputNames(node)
               /\ \A k \in DOMAIN Top.env \ InputNames(node) : child'.env[k] = Top.env[k]
        /\ GuaranteedKeys \subseteq DOMAIN child'.env

\* the nodes of the script that target PATH
PathModNodes ==
    {node \in NodesHere :
        \E k \in {"set", "prepend_path", "append_path", "prepend_flag", "append_flag"} :
            k \in DOMAIN node /\ node[k] = PATH}

\* PATH of a scope changes only by a node of that scope that targets it, and a
\* sub-list starts with the PATH of the list it is in
PathStep ==
    pc = "run" =>
        \A k \in 1..Len(scopes') :
            IF k <= Len(scopes)
            THEN \/ PathOf(scopes'[k].env) = PathOf(scopes[k].env)
                 \/ /\ k = Len(scopes)
                    /\ \E node \in PathModNodes :
                          \/ handle_set(node)
                          \/ handle_prepend_path(node) \/ handle_append_path(node)
                          \/ handle_prepend_flag(node) \/ handle_append_flag(node)
            ELSE PathOf(scopes'[k].env) = PathOf(scopes[k - 1].env)

NodeTarget(node) ==
    IF NodeKinds(node) \subseteq {"cmd", "hit"}
    THEN IF "to_var" \in DOMAIN node THEN {node.to_var} ELSE {}
    ELSE IF NodeKinds(node) = {"chdir"} THEN {PWD}
    ELSE {node[k] : k \in NodeKinds(node) \ {"commands"}}

\* the handler of the node takes this step and the node completes
NodeCompletes(node) ==
    /\ \/ handle_chdir(node) \/ handle_set(node)
       \/ handle_append_path(node) \/ handle_prepend_path(node)
       \/ handle_append_flag(node) \/ handle_prepend_flag(node)
       \/ handle_cmd(node) \/ handle_hit(node)
    /\ error' = NoError

C22_Visibility ==
    [][pc = "run" =>
          /\ Len(scopes') = Len(scopes) + 1 => scopes'[Len(scopes')].env = Top.env
          /\ \A node \in NodesHere :
                 NodeCompletes(node) =>
                     LET new == scopes'[Len(scopes)].env
                     IN  /\ DOMAIN new = DOMAIN Top.env \cup NodeTarget(node)
                         /\ \A v \in DOMAIN Top.env \ NodeTarget(node) : new[v] = Top.env[v]
                         /\ nspawned' = nspawned + 1 =>
                                /\ \A v \in DOMAIN Top.env : child'.env[v] = Top.env[v]
                                /\ \A name \in InputNames(node) :
                                       /\ name \in DOMAIN child'.env
                                       /\ child'.env[name] \in disk'[temp_dir]]_vars

\* a command nested under a later sibling of a capture saw CAPTURED and its own in0,
\* and in0 is not bound in its list
C22_Witness ==
    /\ family = "in" /\ pc = "run" /\ Len(scopes) = 2 /\ Top.i = 1
    /\ child.status = "reaped"
    /\ CAPTURED \in DOMAIN child.env
    /\ <<"in", "0">> \in DOMAIN child.env
    /\ <<"in", "0">> \notin DOMAIN Top.env
    /\ CAPTURED \in DOMAIN Top.env

\* C23: a completed set / prepend_* / append_* node leaves its target bound to the
\* substituted nohash_value (value when there is no nohash_value): as it is for set
\* and for an absent or empty target, else joined to the old value, in front of it
\* for prepend_* and behind it for append_*, by ":" for *_path and " " for *_flag.
EnvModKinds == {"set", "prepend_path", "append_path", "prepend_flag", "append_flag"}

EnvModExpected(node, kind, env) ==
    LET target == node[kind]
        raw == IF "nohash_value" \in DOMAIN node THEN node.nohash_value ELSE node.value
        value == substitute(raw, env).val
        sep == IF kind \in {"prepend_path", "append_path"} THEN <<":">> ELSE <<" ">>
    IN  IF kind = "set" \/ target \notin DOMAIN env THEN value
        ELSE IF env[target] = <<>> THEN value
        ELSE IF kind \in {"prepend_path", "prepend_flag"} THEN value \o sep \o env[target]
        ELSE env[target] \o sep \o value

C23_EnvModSemantics ==
    [][\A node \in NodesHere :
           /\ Cardinality(DOMAIN node \cap KindKeys) = 1
           /\ DOMAIN node \cap EnvModKinds # {}
           /\ NodeCompletes(node)
           => \A kind \in DOMAIN node \cap EnvModKinds :
                  scopes'[Len(scopes)].env[node[kind]] = EnvModExpected(node, kind, Top.env)]_vars

\* prepend_path on the empty PATH set it, a second one joined onto it
C23_Witness ==
    /\ family = "path" /\ pc = "run" /\ error = NoError
    /\ override_env = EmptyDict
    /\ Top.env[PATH] = <<"/", "bin", ":", "/", "bin">>

C27_RegistryTest ==
    [][nspawned' = nspawned + 1 /\ platform' = "simple" =>
          /\ DOMAIN log_fifo_filenames = {}
          /\ child'.status = "reaped"
          /\ error'.kind \in {"none", "CommandFailed"}]_vars

\* C29: what run_job returns is the env recorded by the last cmd/hit node that
\* completed: the env of the node's scope before the node with the node's in<k> names
\* added, whatever the depth; no other step changes the record, so it keeps bindings
\* of scopes that are over and ignores later env-mod nodes; the node's own capture is
\* not in it.
CommandNode(node) == NodeKinds(node) \in {{"cmd"}, {"hit"}}

\* the record a completed cmd/hit node leaves is taken from the env before the node
SnapshotStep(node) ==
    /\ last_env' # None
    /\ DOMAIN last_env'[1] = DOMAIN Top.env \cup InputNames(node)
    /\ \A v \in DOMAIN Top.env \ InputNames(node) : last_env'[1][v] = Top.env[v]

\* every step that is not a completed cmd/hit node leaves the record alone, and the
\* return hands it out
SnapshotFrame ==
    /\ (\A node \in NodesHere : ~(CommandNode(node) /\ NodeCompletes(node)))
           => last_env' = last_env
    /\ (pc' = "done" /\ pc # "done" /\ result'.returned) => result'.value = last_env

C29_FinalEnv_Original ==
    [][/\ SnapshotFrame
       /\ \A node \in NodesHere :
              CommandNode(node) /\ NodeCompletes(node) =>
                  /\ SnapshotStep(node)
                  /\ "to_var" \in DOMAIN node => node.to_var \notin DOMAIN last_env'[1]]_vars

\* as above; a variable the node captures is in the record only when it was bound
\* before the node, and then with the value it had before
C29_FinalEnv_Amended ==
    [][/\ SnapshotFrame
       /\ \A node \in NodesHere :
              CommandNode(node) /\ NodeCompletes(node) =>
                  /\ SnapshotStep(node)
                  /\ "to_var" \in DOMAIN node =>
                         IF node.to_var \in DOMAIN Top.env
                         THEN last_env'[1][node.to_var] = Top.env[node.to_var]
                         ELSE node.to_var \notin DOMAIN last_env'[1]]_vars

\* the returned env holds in0 and the X of a sub-list that is over, and not the
\* capture of the node it was taken at
C29_Witness ==
    /\ family = "in" /\ pc = "done" /\ result.returned /\ result.value # None
    /\ <<"in", "0">> \in DOMAIN result.value[1]
    /\ X \in DOMAIN result.value[1]
    /\ X \notin DOMAIN scopes[1].env

\* C24: the records a stream gives its logger are the newline-terminated lines of the
\* bytes read from it, in order and whatever the chunks: each read logs the lines that
\* the carried fragment and the new bytes complete and carries the unterminated rest;
\* a fragment is logged once, when its descriptor is flushed.
RECURSIVE NewlineLines(_)
NewlineLines(str) ==
    LET nl == {i \in 1..Len(str) : str[i] = "\n"}
    IN  IF nl = {} THEN <<>>
        ELSE LET i == CHOOSE x \in nl : \A y \in nl : x <= y
             IN  <<SubSeq(str, 1, i - 1)>> \o NewlineLines(SubSeq(str, i + 1, Len(str)))

\* what follows the last newline
NewlineRest(str) ==
    LET nl == {i \in 1..Len(str) : str[i] = "\n"}
    IN  IF nl = {} THEN str
        ELSE SubSeq(str, (CHOOSE x \in nl : \A y \in nl : x >= y) + 1, Len(str))

\* the descriptors whose bytes go to a logger
LoggedFds == {fd \in DOMAIN consumed : ~(stdout_to # None /\ fd = stdout_fd)}

\* a read of fd logs the completed lines and carries the rest
ReadStep(fd) ==
    consumed'[fd] # consumed[fd] =>
        LET data == buffers[fd] \o Read(fd)
        IN  /\ log' = log \o [k \in 1..Len(NewlineLines(data)) |->
                                 Record(fd, NewlineLines(data)[k])]
            /\ buffers'[fd] = NewlineRest(data)

\* a step that reads nothing logs the fragments it flushes, and only them
FlushStep ==
    consumed' = consumed =>
        LET flushed == {fd \in DOMAIN buffers :
                           /\ buffers[fd] # <<>>
                           /\ fd \notin DOMAIN buffers' \/ buffers'[fd] = <<>>
                              \/ sv_pc' = "returned"}
        IN  /\ Len(log') = Len(log) + Cardinality(flushed)
            /\ SubSeq(log', 1, Len(log)) = log
            /\ \A fd \in flushed :
                   \E k \in (Len(log) + 1)..Len(log') : log'[k] = Record(fd, buffers[fd])

C24_LineOrder == [][FlushStep /\ \A fd \in LoggedFds : ReadStep(fd)]_vars

\* the same for reads that meet no carriage return
C24_LineOrderNoCR ==
    [][/\ FlushStep
       /\ \A fd \in LoggedFds :
              (/\ consumed'[fd] # consumed[fd]
               /\ \A k \in 1..Len(buffers[fd] \o Read(fd)) :
                      (buffers[fd] \o Read(fd))[k] # "\r")
                  => ReadStep(fd)]_vars

\* C25: whenever the full-mode supervisor polls, every registered log pipe has exactly
\* one open read descriptor, registered with the poller; a FIFO descriptor that reports
\* POLLHUP without POLLIN has its fragment logged and is closed, and the same path is
\* opened again with the same logger and level and registered; stdout and stderr are
\* unregistered on POLLHUP without POLLIN and never registered again; when the
\* supervisor returns no FIFO descriptor is open.
\* the supervisor handles an event that is POLLHUP without POLLIN
HupOnly == sv_pc = "events" /\ Head(events).reason = {"POLLHUP"} /\ events' # events

OneDescriptorPerPipe ==
    \A f \in Fifos :
        /\ Cardinality({fd \in DOMAIN fd_to_logpipe : fd_to_logpipe[fd] = f}) = 1
        /\ \A fd \in DOMAIN fd_to_logpipe : fd_to_logpipe[fd] = f => fd \in registered

ReopenStep ==
    HupOnly /\ Head(events).fd \in DOMAIN fd_to_logpipe =>
        LET fd == Head(events).fd
        IN  /\ log' = log \o (IF buffers[fd] # <<>>
                              THEN <<[name |-> loggers[fd].name, level |-> loggers[fd].level,
                                      msg |-> buffers[fd]]>>
                              ELSE <<>>)
            /\ \E new \in DOMAIN fd_to_logpipe' :
                   /\ fd_to_logpipe'[new] = fd_to_logpipe[fd]
                   /\ new \in registered'
                   /\ new \in DOMAIN loggers' /\ loggers'[new] = loggers[fd]
                   /\ new \in DOMAIN buffers' /\ buffers'[new] = <<>>

StdHupStep ==
    /\ HupOnly /\ Head(events).fd \in {stdout_fd, stderr_fd}
           => Head(events).fd \notin registered'
    /\ \A fd \in {stdout_fd, stderr_fd} :
           sv_pc # "setup" /\ fd \notin registered => fd \notin registered'

C25_FifoReopen ==
    [][/\ sv_pc' = "poll" => OneDescriptorPerPipe'
       /\ ReopenStep
       /\ StdHupStep
       /\ sv_pc' = "returned" /\ sv_pc # "returned"
              => fd_to_logpipe' = EmptyDict /\ registered' \cap Fifos = {}]_vars

\* the fragment of a writer that closed the log pipe was logged under the pipe's
\* logger, and the pipe is open and registered again for the next poll
C25_Witness ==
    /\ sv_pc = "poll" /\ proc.alive /\ Fifos # {}
    /\ Len(log) = 1 /\ log[1] = [name |-> <<"H">>, level |-> <<"INFO">>, msg |-> <<"a">>]
    /\ Fifos \subseteq registered /\ armed = {}
    /\ \A f \in Fifos : buffers[f] = <<>> /\ consumed[f] = <<"a">>
    /\ stdout_fd \in registered

\* C26: once the child has exited, and with it every writer of stdout, stderr and the
\* log pipes, the full-mode supervisor eventually returns, and it returns the child's
\* exit status.
C26_SupervisorTerminates ==
    (~proc.alive /\ sv_pc # "none") ~> (sv_pc = "returned" /\ retcode = Some(proc.retcode))

\* the supervisor returned the status 1 after stdout, stderr and a log pipe hung up
C26_Witness ==
    /\ sv_pc = "returned" /\ retcode = Some(1) /\ ~proc.alive
    /\ Fifos # {} /\ \A f \in Fifos : consumed[f] = <<"a">>
    /\ registered = {}

\* C28: when run_hit has returned or raised, logger.level and sys.stdout are what they
\* were before the call; inside the call the level is WARNING exactly when it was
\* above DEBUG before (and is unchanged otherwise), and sys.stdout is the sink exactly
\* when one was given; `hit logpipe` spawns nothing, and given anything but a header
\* and one of the five level names it raises and makes no FIFO.
HitOver == hit_pc \in {"returned", "raised"}

HitInside == hit_pc \in {"body", "finally"}

WellFormedLogpipe(args) == Len(args) = 3 /\ args[3] \in LogLevels

C28_HitFrame ==
    hit_pc # "none" =>
        /\ HitOver => logger_level = hit_frame.level /\ sys_stdout = "console"
        /\ HitInside =>
               /\ logger_level = "WARNING" <=> hit_frame.level \in {"INFO", "WARNING", "ERROR", "CRITICAL"}
               /\ logger_level # "WARNING" => logger_level = hit_frame.level
               /\ sys_stdout = "sink" <=> hit_frame.stdout_to # None
        /\ Len(hit_frame.args) >= 1 /\ hit_frame.args[1] = <<"logpipe">> =>
               /\ nspawned = 1 /\ child = NoChild
               /\ ~WellFormedLogpipe(hit_frame.args) =>
                      /\ disk[temp_dir] = {} /\ log_fifo_filenames = EmptyDict
                      /\ hit_frame.wrote = <<>>
                      /\ HitOver => /\ hit_pc = "raised"
                                 /\ log = <<ErrorRecord(<<"hit command failed">>)>>

\* a `hit logpipe` with a level that is no level name, called with a sink under level
\* ERROR, has raised: the level is ERROR again and stdout the console
C28_Witness ==
    /\ hit_pc = "raised" /\ hit_frame.exc = "KeyError"
    /\ hit_frame.args = <<<<"logpipe">>, <<"H">>, <<"LOUD">>>>
    /\ hit_frame.stdout_to # None /\ hit_frame.level = "ERROR"
    /\ hit_frame.old_level = "ERROR" /\ hit_frame.old_stdout = "console"
    /\ logger_level = "ERROR" /\ sys_stdout = "console"
    /\ log = <<ErrorRecord(<<"hit command failed">>)>>

\* C30: a profile whose bases share a common ancestor is rejected with
\* ConflictingProfilesError, as is one whose bases contribute the same parameter key
\* or the same package key; own parameters and package entries override those of the
\* bases, and an own entry with variant `skip` removes the entry of a base.
RECURSIVE Ancestors(_, _)
Ancestors(profs, self) ==
    {self} \cup UNION {Ancestors(profs, profs[self].extends[i]) : i \in DOMAIN profs[self].extends}

\* two different bases have an ancestor in common
Diamond(profs, extends) ==
    \E i, j \in DOMAIN extends :
        /\ extends[i] # extends[j]
        /\ (Ancestors(profs, extends[i]) \ {extends[i]})
               \cap (Ancestors(profs, extends[j]) \ {extends[j]}) # {}

Conflicting == Err("ConflictingProfilesError")

SameParameter(profs, extends) ==
    \E i, j \in DOMAIN extends :
        i # j /\ DOMAIN profs[extends[i]].parameters \cap DOMAIN profs[extends[j]].parameters # {}

SamePackage(profs, extends) ==
    \E i, j \in DOMAIN extends :
        /\ i # j
        /\ \A b \in DOMAIN extends : GetPackages(profs, extends[b]).ok
        /\ DOMAIN GetPackages(profs, extends[i]).val
               \cap DOMAIN GetPackages(profs, extends[j]).val # {}

\* the virtual name of an entry of the packages section
EntryVname(entry) == IF entry.vname = None THEN parse_entry(entry.s).val[1] ELSE entry.vname[1]

\* the rules of the merge, the diamond apart
ProfileMergeRules ==
    prof_call # <<>> =>
        LET c == prof_call
            lst == c.doc.packages
        IN  /\ c.op = "init" /\ SameParameter(profiles, c.extends) => c.res = Conflicting
            /\ c.op = "init" /\ c.res.ok =>
                   /\ \A k \in DOMAIN c.doc.parameters :
                          profiles[c.self].parameters[k] = c.doc.parameters[k]
                   /\ \A i \in DOMAIN c.extends :
                          \A k \in DOMAIN profiles[c.extends[i]].parameters \ DOMAIN c.doc.parameters :
                              profiles[c.self].parameters[k] = profiles[c.extends[i]].parameters[k]
            /\ c.op = "get_packages" /\ SamePackage(profiles, c.extends) => c.res = Conflicting
            /\ c.op = "get_packages" /\ c.res.ok =>
                   \A n \in DOMAIN lst :
                       (\A later \in n + 1..Len(lst) : EntryVname(lst[later]) # EntryVname(lst[n])) =>
                           LET e == parse_entry(lst[n].s).val
                           IN  IF e[2] = Some(<<"skip">>)
                               THEN EntryVname(lst[n]) \notin DOMAIN c.res.val
                               ELSE /\ EntryVname(lst[n]) \in DOMAIN c.res.val
                                    /\ c.res.val[EntryVname(lst[n])] = e

C30_ProfileInheritance ==
    /\ ProfileMergeRules
    /\ prof_call # <<>> /\ prof_call.op = "get_packages" /\ prof_call.res.ok =>
           ~Diamond(profiles, prof_call.extends)

\* a skip entry was applied to a package that a base contributed
C30_SkipSeen ==
    /\ prof_pc = "returned"
    /\ Len(prof_call.extends) = 1
    /\ <<"p">> \in DOMAIN GetPackages(profiles, prof_call.extends[1]).val
    /\ <<"p">> \notin DOMAIN prof_call.res.val
====
